---- MODULE Spec2Model ----
(***************************************************************************)
(* Model of the PDF fulfillment service (src/pdf.service.ts, PDFService).  *)
(*                                                                         *)
(* Families of behaviour are modelled, each under its own specification    *)
(* over the same variables:                                                *)
(*   SpecPremium  sendPremiumPDF requests against the payment processor    *)
(*   SpecCoupon   sendCouponPDF requests and checkCouponOrCode             *)
(*   SpecPool     the pooled browser instance (getBrowserInstance,         *)
(*                cleanupStaleBrowserInstance, initializePage)             *)
(*   SpecGen      generatePreviews / generateBasicPDF / generatePremiumPDF *)
(*   SpecPieces   preparePatternPieces of the client                       *)
(*   SpecPrepare  preparePdfData and preparePatternAssets                  *)
(*   SpecHandler  the coupon handlers of useDownloadModal                  *)
(*   SpecLibrary  the load methods of AssetsLibraryStore                   *)
(*                                                                         *)
(* An async method is cut at its awaits: one action per stretch of code    *)
(* that runs without yielding.  A JS value that may be null/undefined is   *)
(* a BOOLEAN "present" flag (files, patterns) or a record with a           *)
(* `present` field (the coupon / promocode value).                         *)
(***************************************************************************)
EXTENDS Integers, FiniteSets, Sequences, TLC

\* ---------------------------------------------------------------- bounds
\* Number of concurrent sendPremiumPDF / sendCouponPDF calls.
MaxSendReqs == 2

SendReqs == 1..MaxSendReqs

\* Number of concurrent initializePage callers.
MaxPoolReqs == 2

PoolReqs == 1..MaxPoolReqs

\* Number of concurrent generatePreviews / generateBasicPDF /
\* generatePremiumPDF calls.
MaxGenReqs == 1

GenReqs == 1..MaxGenReqs

\* Size of the data handed to the pattern-data helpers: pieces, assets, and
\* instructions over all assets.
MaxPieces == 2

MaxAssets == 2

MaxInstructions == 2

\* Piece positions: coordinates are multiples of 1 / Resolution between
\* -MaxCoord and MaxCoord (in those multiples).
Resolution == 2

MaxCoord == 2

\* Number of handleCouponContactFormSubmit invocations.
MaxSubmits == 2

Submits == 1..MaxSubmits

\* Number of handleCouponFormSubmit invocations that pass its guard.
MaxCouponTries == 2

\* The asset library: asset ids, load operations, and ids per
\* loadPiecesForAssets call.
MaxLibAssets == 2

LibAssetIds == 1..MaxLibAssets

MaxLoadOps == 3

LoadOps == 1..MaxLoadOps

MaxIds == 2

\* Total number of initializePage calls in a behaviour.
MaxAcquire == 3

\* Clock resolution and horizon.
TicksPerHour == 2

MaxTime == 4

\* The staleness threshold of cleanupStaleBrowserInstance: one hour.
StaleHours == 1

StaleAfter == StaleHours * TicksPerHour

\* ------------------------------------------------------------- variables
VARIABLES
    fileExists,       \* filesService.getFile(fileId) finds the file
    patternExists,    \* patternsService.getPattern(patternId) finds the pattern
    paymentIntent,    \* the processor's payment intent: [status, payment_method]
    couponOrPromo,    \* the processor's record of the code: [type, present, valid, active]
    pendingInactive,  \* setPromotionCodeInactive calls in flight (not awaited)
    premium,          \* per sendPremiumPDF call: position and locals
    coupon,           \* per sendCouponPDF call: position and locals
    browserInstance,               \* PDFService.browserInstance: Null or Some(engine)
    browserInstanceInitializedAt,  \* PDFService.browserInstanceInitializedAt: Null or Some(time)
    now,              \* the clock read by new Date(), in ticks
    engines,          \* every engine process puppeteer.launch may create
    launched,         \* number of engine processes created so far
    launchCalls,      \* number of puppeteer.launch invocations
    launchFailures,   \* number of puppeteer.launch invocations that failed
    acquisitions,     \* number of initializePage calls made
    overlap,          \* history: two acquisitions were ever in flight together
    acq,              \* per initializePage caller: position and locals
    gen,              \* per generatePreviews / generateBasicPDF / generatePremiumPDF call
    patternsStored,   \* pattern records in the pattern store
    filesStored,      \* PDF files in the file store
    intentsCreated,   \* payment intents created at the processor
    pdfData,          \* the pieces and assets handed to the client helpers and to preparePdfData
    prep,             \* the preparePdfData call: position, lookup results, output
    client,           \* the outputs of preparePatternPieces / preparePatternAssets
    modalParams,      \* DownloadModalContext.modalParams: isLoading and couponState
    couponForm,       \* the handleCouponFormSubmit invocation
    submit,           \* per handleCouponContactFormSubmit invocation: position and effects
    isLoading,        \* AssetsLibraryStore.isLoading
    isSvgLoading,     \* AssetsLibraryStore.isSvgLoading
    assets,           \* AssetsLibraryStore.assets: per asset id, absent or its pieces
    assetsVersion,    \* number of times AssetsLibraryStore.assets was replaced
    loads,            \* per load operation of the store: position and fetches
    fetchCalls        \* assetsApi.getAssetPieces calls made, per asset id

worldVars == <<fileExists, patternExists, paymentIntent, couponOrPromo, pendingInactive>>
sendVars == <<fileExists, patternExists, paymentIntent, couponOrPromo, pendingInactive,
              premium, coupon>>
poolVars == <<browserInstance, browserInstanceInitializedAt, now, engines, launched,
              launchCalls, launchFailures, acquisitions, overlap, acq>>
genVars == <<gen, patternsStored, filesStored, intentsCreated>>
prepVars == <<pdfData, prep, client>>
modalVars == <<modalParams, couponForm, submit>>
libVars == <<isLoading, isSvgLoading, assets, assetsVersion, loads, fetchCalls>>
uiVars == <<modalVars, libVars>>
vars == <<sendVars, poolVars, genVars, prepVars, uiVars>>

\* ------------------------------------------------------- error messages
\* (the source's typographic apostrophe is written ')
PaymentMissingMsg == "Payment does not exist!"
NotPaidMsg        == "Premium PDF not paid yet!"
FileMissingMsg    == "PDF file does not exist!"
PatternMissingMsg == "Pattern does not exist!"
CouponMsg         == "That coupon code didn't work or is expired."
PromoMsg          == "That promotion code didn't work or is expired."
NoSuchCodeMsg     == "No such coupon or promotion code."

\* The errors thrown as BadRequestException (client errors).
BadRequestException ==
    {PaymentMissingMsg, NotPaidMsg, FileMissingMsg, PatternMissingMsg,
     CouponMsg, PromoMsg, NoSuchCodeMsg}

\* Errors that are not client errors: a TypeError raised by the runtime, and a
\* failure propagated from the mail transport.
TypeError == "TypeError"
MailError == "MailError"
NoError   == "none"

\* ------------------------------------------------------- value domains
IntentStatuses == {"requires_payment_method", "requires_action", "succeeded"}

PaymentIntents == [status : IntentStatuses, payment_method : BOOLEAN]

CodeTypes == {"coupon", "promocode", "none"}

\* The result of getCouponOrPromoCode: a type tag and a value; an absent value
\* carries no truthy `valid` / `active`.
CouponOrCodes ==
    {c \in [type : CodeTypes, present : BOOLEAN, valid : BOOLEAN, active : BOOLEAN] :
        ~c.present => (~c.valid /\ ~c.active)}

NoCode == [type |-> "none", present |-> FALSE, valid |-> FALSE, active |-> FALSE]

\* ------------------------------------------------ rendering-engine pool
\* A nullable field: Null, or Some(x).
Null == <<>>

Some(x) == <<x>>

Val(o) == o[1]

EngineIds == 1..MaxAcquire

\* An engine process: not yet created, open, being closed, closed.
NoEngine == [state |-> "unborn", closeCalls |-> 0, createdAt |-> 0]

\* Faulty variants of IsStale: no engine is ever stale; the threshold is two
\* hours.
IsStale_Never(initializedAt, current) == FALSE

IsStale_TwoHours(initializedAt, current) == initializedAt <= current - 2 * StaleAfter

\* cleanupStaleBrowserInstance's test on the recorded creation time:
\*   hourBeforeCurrentDate = now - 1 hour; initializedAt <= hourBeforeCurrentDate
IsStale(initializedAt, current) == initializedAt <= current - StaleAfter

\* Faulty variant of ReusesPooled: the pooled instance is never reused.
ReusesPooled_Never(instance) == FALSE

\* getBrowserInstance's test after the cleanup: if (this.browserInstance).
ReusesPooled(instance) == instance # Null

\* Faulty variant of StoredAfterLaunch: a launched engine is stored only
\* when the pool is still empty.
StoredAfterLaunch_KeepPooled(pooled, engine) ==
    IF pooled # Null THEN pooled ELSE Some(engine)

\* getBrowserInstance's store when puppeteer.launch resolves:
\*   this.browserInstance = await puppeteer.launch(...)
\* whatever is pooled at that moment is overwritten.
StoredAfterLaunch(pooled, engine) == Some(engine)

\* Faulty variant of ClearedAfterClose: the creation time is left in place.
ClearedAfterClose_Kept(initializedAt) == initializedAt

\* cleanupStaleBrowserInstance after the awaited close():
\*   this.browserInstanceInitializedAt = null
ClearedAfterClose(initializedAt) == Null

\* Faulty variant of AfterFailedLaunch: the creation time is written before
\* the launch is awaited, so it is set although the launch failed.
AfterFailedLaunch_Stamped(initializedAt, current) == Some(current)

\* getBrowserInstance when puppeteer.launch rejects: the assignments after
\* the await are not reached, browserInstanceInitializedAt keeps its value.
AfterFailedLaunch(initializedAt, current) == initializedAt

\* An initializePage caller before its call.
AcqIdle ==
    [pc |-> "idle", browser |-> Null, page |-> Null, error |-> NoError,
     calledAt |-> 0, pooledAtCall |-> Null, lateAtCall |-> FALSE,
     launches |-> 0, closes |-> 0]

\* Positions of an acquisition between its call and its return.
InFlight == {"closing", "afterCleanup", "launching", "returned"}

\* Positions whose continuation is already queued (a resolved await): the
\* clock does not advance across them.
Immediate == {"afterCleanup", "returned"}

PoolAtRest ==
    /\ browserInstance = Null
    /\ browserInstanceInitializedAt = Null
    /\ now = 0
    /\ engines = [e \in EngineIds |-> NoEngine]
    /\ launched = 0
    /\ launchCalls = 0
    /\ launchFailures = 0
    /\ acquisitions = 0
    /\ overlap = FALSE
    /\ acq = [r \in PoolReqs |-> AcqIdle]

\* initializePage is called: getBrowserInstance runs
\* cleanupStaleBrowserInstance up to its first await.  Either the pool is
\* empty or fresh and the cleanup returns, or the pooled engine is stale and
\* browserInstance.close() is invoked and awaited.
initializePage_call(r) ==
    /\ acq[r].pc \in {"idle", "failed"}
    /\ acquisitions < MaxAcquire
    /\ acquisitions' = acquisitions + 1
    /\ overlap' = (overlap \/ \E s \in PoolReqs \ {r} : acq[s].pc \in InFlight)
    /\ LET pooled == browserInstance # Null /\ browserInstanceInitializedAt # Null
           stale  == pooled /\ IsStale(Val(browserInstanceInitializedAt), now)
           late   == pooled /\ now - Val(browserInstanceInitializedAt) > StaleAfter
           fresh  == [AcqIdle EXCEPT !.calledAt = now,
                                     !.pooledAtCall = browserInstance,
                                     !.lateAtCall = late]
       IN  IF stale
           THEN /\ engines' = [engines EXCEPT
                        ![Val(browserInstance)].closeCalls = @ + 1,
                        ![Val(browserInstance)].state =
                            IF @ = "open" THEN "closing" ELSE @]
                /\ acq' = [acq EXCEPT ![r] =
                        [fresh EXCEPT !.pc = "closing", !.closes = 1]]
           ELSE /\ acq' = [acq EXCEPT ![r] = [fresh EXCEPT !.pc = "afterCleanup"]]
                /\ UNCHANGED engines
    /\ UNCHANGED <<browserInstance, browserInstanceInitializedAt, now, launched,
                   launchCalls, launchFailures, sendVars, genVars, prepVars, uiVars>>

\* browserInstance.close() resolves: the cleanup clears both pooled fields and
\* returns.
cleanupStaleBrowserInstance_closed(r) ==
    /\ acq[r].pc = "closing"
    /\ engines' = [engines EXCEPT ![Val(acq[r].pooledAtCall)].state = "closed"]
    /\ browserInstanceInitializedAt' = ClearedAfterClose(browserInstanceInitializedAt)
    /\ browserInstance' = Null
    /\ acq' = [acq EXCEPT ![r].pc = "afterCleanup"]
    /\ UNCHANGED <<now, launched, launchCalls, launchFailures, acquisitions, overlap,
                   sendVars, genVars, prepVars, uiVars>>

\* getBrowserInstance resumes after the cleanup: the pooled instance is
\* returned, or puppeteer.launch is invoked and awaited.
getBrowserInstance_check(r) ==
    /\ acq[r].pc = "afterCleanup"
    /\ IF ReusesPooled(browserInstance)
       THEN /\ acq' = [acq EXCEPT ![r].browser = browserInstance, ![r].pc = "returned"]
            /\ UNCHANGED launchCalls
       ELSE /\ acq' = [acq EXCEPT ![r].launches = @ + 1, ![r].pc = "launching"]
            /\ launchCalls' = launchCalls + 1
    /\ UNCHANGED <<browserInstance, browserInstanceInitializedAt, now, engines, launched,
                   launchFailures, acquisitions, overlap, sendVars, genVars, prepVars, uiVars>>

\* puppeteer.launch resolves: the new engine is stored with its creation time
\* and returned; or it rejects and the error propagates to the caller.
getBrowserInstance_launched(r) ==
    /\ acq[r].pc = "launching"
    /\ \/ /\ launched' = launched + 1
          /\ engines' = [engines EXCEPT ![launched + 1] =
                    [state |-> "open", closeCalls |-> 0, createdAt |-> now]]
          /\ browserInstance' = StoredAfterLaunch(browserInstance, launched + 1)
          /\ browserInstanceInitializedAt' = Some(now)
          /\ acq' = [acq EXCEPT ![r].browser = Some(launched + 1), ![r].pc = "returned"]
          /\ UNCHANGED launchFailures
       \/ /\ launchFailures' = launchFailures + 1
          /\ acq' = [acq EXCEPT ![r].pc = "failed", ![r].error = "LaunchError"]
          /\ browserInstanceInitializedAt' =
                AfterFailedLaunch(browserInstanceInitializedAt, now)
          /\ UNCHANGED <<launched, engines, browserInstance>>
    /\ UNCHANGED <<now, launchCalls, acquisitions, overlap, sendVars, genVars, prepVars,
                   uiVars>>

\* initializePage resumes with the browser and requests browser.newPage():
\* an open engine yields a page, an engine being closed or closed fails.
initializePage_newPage(r) ==
    /\ acq[r].pc = "returned"
    /\ IF engines[Val(acq[r].browser)].state = "open"
       THEN acq' = [acq EXCEPT ![r].page = acq[r].browser, ![r].pc = "hasPage"]
       ELSE acq' = [acq EXCEPT ![r].pc = "failed", ![r].error = "PageError"]
    /\ UNCHANGED <<browserInstance, browserInstanceInitializedAt, now, engines, launched,
                   launchCalls, launchFailures, acquisitions, overlap, sendVars, genVars,
                   prepVars, uiVars>>

\* The caller's flow ends: page.close().
page_close(r) ==
    /\ acq[r].pc = "hasPage"
    /\ acq' = [acq EXCEPT ![r] = AcqIdle]
    /\ UNCHANGED <<browserInstance, browserInstanceInitializedAt, now, engines, launched,
                   launchCalls, launchFailures, acquisitions, overlap, sendVars, genVars,
                   prepVars, uiVars>>

\* Time passes while every caller is idle, awaits I/O or works on its page.
tick ==
    /\ now < MaxTime
    /\ \A r \in PoolReqs : acq[r].pc \notin Immediate
    /\ now' = now + 1
    /\ UNCHANGED <<browserInstance, browserInstanceInitializedAt, engines, launched,
                   launchCalls, launchFailures, acquisitions, overlap, acq, sendVars, genVars,
                   prepVars, uiVars>>

\* ------------------------------------------------------ sendPremiumPDF
\* Faulty variant of PremiumChecks: the status check is missing.
PremiumChecks_NoStatus(file, pattern, intent) ==
    IF ~intent.payment_method THEN PaymentMissingMsg
    ELSE IF ~file THEN FileMissingMsg
    ELSE IF ~pattern THEN PatternMissingMsg
    ELSE NoError

\* Faulty variant of PremiumChecks: the file and pattern checks come first.
PremiumChecks_FileFirst(file, pattern, intent) ==
    IF ~file THEN FileMissingMsg
    ELSE IF ~pattern THEN PatternMissingMsg
    ELSE IF ~intent.payment_method THEN PaymentMissingMsg
    ELSE IF intent.status # "succeeded" THEN NotPaidMsg
    ELSE NoError

\* The four checks of sendPremiumPDF, in the order of the code; "none" when
\* all pass.
PremiumChecks(file, pattern, intent) ==
    IF ~intent.payment_method THEN PaymentMissingMsg
    ELSE IF intent.status # "succeeded" THEN NotPaidMsg
    ELSE IF ~file THEN FileMissingMsg
    ELSE IF ~pattern THEN PatternMissingMsg
    ELSE NoError

\* A generation call before it is made.
GenIdle ==
    [kind |-> "none", coupon |-> FALSE, status |-> "idle", idx |-> 0, log |-> <<>>,
     error |-> NoError, code |-> NoCode, paymentData |-> FALSE,
     result |-> [fileId |-> FALSE, patternId |-> FALSE, paymentId |-> FALSE,
                 clientSecret |-> FALSE, basicPreview |-> FALSE,
                 premiumPreview |-> FALSE]]

\* No generation call made, the stores empty.
GenAtRest ==
    /\ gen = [r \in GenReqs |-> GenIdle]
    /\ patternsStored = 0
    /\ filesStored = 0
    /\ intentsCreated = 0

\* A preparePdfData call before it is made.
PrepIdle ==
    [pc |-> "idle", results |-> <<>>, error |-> NoError, outOfOrder |-> FALSE,
     output |-> [patternAssets |-> <<>>, patternPieces |-> <<>>]]

\* The client helpers before they ran.
ClientIdle == [pieces |-> Null, assets |-> Null]

\* No pattern data handed over, no helper called.
PrepAtRest ==
    /\ pdfData = [patternPieces |-> <<>>, patternAssets |-> <<>>]
    /\ prep = PrepIdle
    /\ client = ClientIdle

\* A handleCouponContactFormSubmit invocation before it is made.
SubmitIdle ==
    [pc |-> "idle", couponId |-> FALSE, generateCalls |-> 0, sendCalls |-> 0,
     generated |-> FALSE, sent |-> FALSE, errorModals |-> 0, checkEmailModals |-> 0,
     purchaseEvents |-> 0, cancelModals |-> 0]

\* The download modal as opened: not loading, no coupon entered.
ModalAtRest ==
    /\ modalParams = [isLoading |-> FALSE, couponId |-> FALSE, error |-> FALSE]
    /\ couponForm = [pc |-> "idle", tries |-> 0]
    /\ submit = [h \in Submits |-> SubmitIdle]

\* A load operation of the asset library before it is started.
LoadIdle == [kind |-> "none", pc |-> "idle", ids |-> <<>>, fetches |-> <<>>, version |-> 0]

\* AssetsLibraryStore after construction: isLoading = false,
\* isSvgLoading = false, assets = [].
LibraryAtRest ==
    /\ isLoading = FALSE
    /\ isSvgLoading = FALSE
    /\ assets = [id \in LibAssetIds |-> "absent"]
    /\ assetsVersion = 0
    /\ loads = [o \in LoadOps |-> LoadIdle]
    /\ fetchCalls = [id \in LibAssetIds |-> 0]

UiAtRest == ModalAtRest /\ LibraryAtRest

\* A sendPremiumPDF call before it is made.
PremiumIdle ==
    [pc |-> "idle", file |-> FALSE, pattern |-> FALSE,
     intent |-> [status |-> "requires_payment_method", payment_method |-> FALSE],
     error |-> NoError, mails |-> 0]

\* A sendCouponPDF call before it is made.
CouponIdle ==
    [pc |-> "idle", file |-> FALSE, pattern |-> FALSE, code |-> NoCode,
     check |-> "pending", error |-> NoError, mails |-> 0, sent |-> FALSE,
     inactiveCalls |-> 0, inactive |-> "none"]

\* sendPremiumPDF is called: filesService.getFile(fileId) is issued.
sendPremiumPDF_call(r) ==
    /\ premium[r].pc = "idle"
    /\ premium' = [premium EXCEPT ![r].pc = "getFile"]
    /\ UNCHANGED <<worldVars, coupon, poolVars, genVars, prepVars, uiVars>>

\* getFile resolves; patternsService.getPattern(patternId) is issued.
sendPremiumPDF_getFile(r) ==
    /\ premium[r].pc = "getFile"
    /\ premium' = [premium EXCEPT ![r].file = fileExists, ![r].pc = "getPattern"]
    /\ UNCHANGED <<worldVars, coupon, poolVars, genVars, prepVars, uiVars>>

\* getPattern resolves; paymentService.retrievePaymentIntent is issued.
sendPremiumPDF_getPattern(r) ==
    /\ premium[r].pc = "getPattern"
    /\ premium' = [premium EXCEPT ![r].pattern = patternExists, ![r].pc = "retrieve"]
    /\ UNCHANGED <<worldVars, coupon, poolVars, genVars, prepVars, uiVars>>

\* retrievePaymentIntent resolves; the four checks run and, when they pass,
\* mailService.sendPremiumPattern is invoked.
sendPremiumPDF_retrieve(r) ==
    /\ premium[r].pc = "retrieve"
    /\ LET err == PremiumChecks(premium[r].file, premium[r].pattern, paymentIntent)
       IN  premium' = [premium EXCEPT
                ![r].intent = paymentIntent,
                ![r].error  = err,
                ![r].mails  = IF err = NoError THEN @ + 1 ELSE @,
                ![r].pc     = IF err = NoError THEN "mail" ELSE "failed"]
    /\ UNCHANGED <<worldVars, coupon, poolVars, genVars, prepVars, uiVars>>

\* sendPremiumPattern resolves (the method returns) or rejects (the error
\* propagates).
sendPremiumPDF_mail(r) ==
    /\ premium[r].pc = "mail"
    /\ \/ premium' = [premium EXCEPT ![r].pc = "done"]
       \/ premium' = [premium EXCEPT ![r].pc = "failed", ![r].error = MailError]
    /\ UNCHANGED <<worldVars, coupon, poolVars, genVars, prepVars, uiVars>>

\* The payment processor advances the intent out of band (client-side
\* confirmation): a payment method is attached, then the charge succeeds.
\* "succeeded" is terminal.
confirmPayment ==
    /\ paymentIntent.status # "succeeded"
    /\ \/ /\ paymentIntent.status = "requires_payment_method"
          /\ paymentIntent' = [status |-> "requires_action", payment_method |-> TRUE]
       \/ /\ paymentIntent.status = "requires_action"
          /\ paymentIntent.payment_method
          /\ paymentIntent' = [paymentIntent EXCEPT !.status = "succeeded"]
    /\ UNCHANGED <<fileExists, patternExists, couponOrPromo, pendingInactive,
                   premium, coupon, poolVars, genVars, prepVars, uiVars>>

InitPremium ==
    /\ fileExists \in BOOLEAN
    /\ patternExists \in BOOLEAN
    /\ paymentIntent \in PaymentIntents
    /\ couponOrPromo = NoCode
    /\ pendingInactive = 0
    /\ premium = [r \in SendReqs |-> PremiumIdle]
    /\ coupon = [r \in SendReqs |-> CouponIdle]
    /\ PoolAtRest
    /\ GenAtRest
    /\ PrepAtRest
    /\ UiAtRest

NextPremium ==
    \/ \E r \in SendReqs : sendPremiumPDF_call(r)
    \/ \E r \in SendReqs : sendPremiumPDF_getFile(r)
    \/ \E r \in SendReqs : sendPremiumPDF_getPattern(r)
    \/ \E r \in SendReqs : sendPremiumPDF_retrieve(r)
    \/ \E r \in SendReqs : sendPremiumPDF_mail(r)
    \/ confirmPayment

SpecPremium == InitPremium /\ [][NextPremium]_vars

\* ------------------------------------------------- sendPremiumPDF claims
PremiumCalled == {r \in SendReqs : premium[r].pc # "idle"}

PremiumSettled == \A r \in PremiumCalled : premium[r].pc \in {"done", "failed"}

\* Total number of mailService.sendPremiumPattern invocations.
PremiumMailCalls == Cardinality({r \in SendReqs : premium[r].mails > 0})

FourChecksPass(q) ==
    /\ q.intent.payment_method
    /\ q.intent.status = "succeeded"
    /\ q.file
    /\ q.pattern

\* C1: over any sequence of sendPremiumPDF calls carrying the same
\* paymentId/fileId/patternId, each of which retrieved the intent as
\* 'succeeded' with a payment method attached (file and pattern present),
\* sendPremiumPattern is invoked exactly once in total.
C1_EmailExactlyOnceInTotal ==
    ( /\ PremiumCalled # {}
      /\ PremiumSettled
      /\ \A r \in PremiumCalled : FourChecksPass(premium[r]) )
    => PremiumMailCalls = 1

\* C2: a sendPremiumPDF call invokes sendPremiumPattern only if the retrieved
\* intent has a payment method and status 'succeeded' and the fetched file and
\* pattern exist; a call for which any of the four fails ends with a client
\* error and has invoked no mail.
C2_MailOnlyAfterFourChecks ==
    \A r \in SendReqs :
        LET q == premium[r] IN
        /\ q.mails <= 1
        /\ q.mails > 0 => FourChecksPass(q)
        /\ (q.pc \in {"mail", "done", "failed"} /\ ~FourChecksPass(q))
              => /\ q.pc = "failed"
                 /\ q.error \in BadRequestException
                 /\ q.mails = 0

\* C2 witness: file and pattern exist, a payment method is attached, the
\* status is not 'succeeded': the call failed as not paid, without mail.
C2_Witness ==
    \E r \in SendReqs :
        LET q == premium[r] IN
        /\ q.pc = "failed"
        /\ q.file /\ q.pattern /\ q.intent.payment_method
        /\ q.intent.status # "succeeded"
        /\ q.error = NotPaidMsg
        /\ q.mails = 0

\* ------------------------------------------------------- sendCouponPDF
\* checkCouponOrCode: the thrown message, TypeError when the runtime throws
\* on reading a property of a missing value, or "none" when it returns.
\*   coupon    = value when type === 'coupon', else null
\*   promocode = value when type === 'promocode', else null
checkCouponOrCode(c) ==
    LET couponSet    == c.type = "coupon" /\ c.present
        promocodeSet == c.type = "promocode" /\ c.present
    IN  IF c.type = "coupon" /\ ~(c.present /\ c.valid)      \* !coupon?.valid
            THEN CouponMsg
        ELSE IF c.type = "promocode" /\ ~c.present           \* promocode.active, promocode missing
            THEN TypeError
        ELSE IF c.type = "promocode" /\ ~c.active            \* !promocode.active
            THEN PromoMsg
        ELSE IF ~couponSet /\ ~promocodeSet                  \* !coupon && !promocode
            THEN NoSuchCodeMsg
        ELSE NoError

\* Faulty variant of deactivatesAfterSend: every code is deactivated.
deactivatesAfterSend_Always(c) == TRUE

\* Faulty variant of deactivatesAfterSend: no code is ever deactivated.
deactivatesAfterSend_Never(c) == FALSE

\* The guard of the deactivation after the coupon email:
\*   if (couponOrCode.type == 'promocode')
deactivatesAfterSend(c) == c.type = "promocode"

\* Faulty variant of CouponChecks: the outcome of checkCouponOrCode is
\* ignored.
CouponChecks_SkipCode(file, pattern, c) ==
    IF ~file THEN FileMissingMsg
    ELSE IF ~pattern THEN PatternMissingMsg
    ELSE NoError

\* Faulty variant of CouponChecks: the file and pattern checks come first.
CouponChecks_FileFirst(file, pattern, c) ==
    IF ~file THEN FileMissingMsg
    ELSE IF ~pattern THEN PatternMissingMsg
    ELSE checkCouponOrCode(c)

\* The checks of sendCouponPDF after getCouponOrPromoCode resolved, in the
\* order of the code.
CouponChecks(file, pattern, c) ==
    IF checkCouponOrCode(c) # NoError THEN checkCouponOrCode(c)
    ELSE IF ~file THEN FileMissingMsg
    ELSE IF ~pattern THEN PatternMissingMsg
    ELSE NoError

\* sendCouponPDF is called: filesService.getFile(fileId) is issued.
sendCouponPDF_call(r) ==
    /\ coupon[r].pc = "idle"
    /\ coupon' = [coupon EXCEPT ![r].pc = "getFile"]
    /\ UNCHANGED <<worldVars, premium, poolVars, genVars, prepVars, uiVars>>

\* getFile resolves; patternsService.getPattern(patternId) is issued.
sendCouponPDF_getFile(r) ==
    /\ coupon[r].pc = "getFile"
    /\ coupon' = [coupon EXCEPT ![r].file = fileExists, ![r].pc = "getPattern"]
    /\ UNCHANGED <<worldVars, premium, poolVars, genVars, prepVars, uiVars>>

\* getPattern resolves; paymentService.getCouponOrPromoCode is issued.
sendCouponPDF_getPattern(r) ==
    /\ coupon[r].pc = "getPattern"
    /\ coupon' = [coupon EXCEPT ![r].pattern = patternExists, ![r].pc = "getCode"]
    /\ UNCHANGED <<worldVars, premium, poolVars, genVars, prepVars, uiVars>>

\* getCouponOrPromoCode resolves; checkCouponOrCode and the file / pattern
\* checks run and, when they pass, mailService.sendCouponPattern is invoked.
sendCouponPDF_getCode(r) ==
    /\ coupon[r].pc = "getCode"
    /\ LET err == CouponChecks(coupon[r].file, coupon[r].pattern, couponOrPromo)
       IN  coupon' = [coupon EXCEPT
                ![r].code  = couponOrPromo,
                ![r].check = checkCouponOrCode(couponOrPromo),
                ![r].error = err,
                ![r].mails = IF err = NoError THEN @ + 1 ELSE @,
                ![r].pc    = IF err = NoError THEN "mail" ELSE "failed"]
    /\ UNCHANGED <<worldVars, premium, poolVars, genVars, prepVars, uiVars>>

\* sendCouponPattern resolves: a promocode's deactivation is invoked (not
\* awaited) and the method returns; or it rejects and the error propagates.
sendCouponPDF_mail(r) ==
    /\ coupon[r].pc = "mail"
    /\ \/ /\ coupon' = [coupon EXCEPT
                ![r].sent = TRUE,
                ![r].inactiveCalls =
                    IF deactivatesAfterSend(coupon[r].code) THEN @ + 1 ELSE @,
                ![r].inactive =
                    IF deactivatesAfterSend(coupon[r].code) THEN "pending" ELSE @,
                ![r].pc = "done"]
          /\ pendingInactive' =
                IF deactivatesAfterSend(coupon[r].code)
                THEN pendingInactive + 1 ELSE pendingInactive
       \/ /\ coupon' = [coupon EXCEPT ![r].pc = "failed", ![r].error = MailError]
          /\ UNCHANGED pendingInactive
    /\ UNCHANGED <<fileExists, patternExists, paymentIntent, couponOrPromo, premium,
                   poolVars, genVars, prepVars, uiVars>>

\* The setPromotionCodeInactive call left in flight by call r reaches the
\* processor, which marks the promotion code inactive; or it is rejected and
\* changes nothing.  sendCouponPDF has returned by then: nothing observes
\* the outcome.
setPromotionCodeInactive(r) ==
    /\ coupon[r].inactive = "pending"
    /\ pendingInactive > 0
    /\ pendingInactive' = pendingInactive - 1
    /\ \/ /\ couponOrPromo' = [couponOrPromo EXCEPT !.active = FALSE]
          /\ coupon' = [coupon EXCEPT ![r].inactive = "applied"]
       \/ /\ UNCHANGED couponOrPromo
          /\ coupon' = [coupon EXCEPT ![r].inactive = "rejected"]
    /\ UNCHANGED <<fileExists, patternExists, paymentIntent, premium, poolVars, genVars,
                   prepVars, uiVars>>

InitCoupon ==
    /\ fileExists \in BOOLEAN
    /\ patternExists \in BOOLEAN
    /\ paymentIntent = [status |-> "requires_payment_method", payment_method |-> FALSE]
    /\ couponOrPromo \in CouponOrCodes
    /\ pendingInactive = 0
    /\ premium = [r \in SendReqs |-> PremiumIdle]
    /\ coupon = [r \in SendReqs |-> CouponIdle]
    /\ PoolAtRest
    /\ GenAtRest
    /\ PrepAtRest
    /\ UiAtRest

NextCoupon ==
    \/ \E r \in SendReqs : sendCouponPDF_call(r)
    \/ \E r \in SendReqs : sendCouponPDF_getFile(r)
    \/ \E r \in SendReqs : sendCouponPDF_getPattern(r)
    \/ \E r \in SendReqs : sendCouponPDF_getCode(r)
    \/ \E r \in SendReqs : sendCouponPDF_mail(r)
    \/ \E r \in SendReqs : setPromotionCodeInactive(r)

SpecCoupon == InitCoupon /\ [][NextCoupon]_vars

\* ------------------------------------------- pool specification
SendAtRest ==
    /\ fileExists = TRUE
    /\ patternExists = TRUE
    /\ paymentIntent = [status |-> "requires_payment_method", payment_method |-> FALSE]
    /\ couponOrPromo = NoCode
    /\ pendingInactive = 0
    /\ premium = [r \in SendReqs |-> PremiumIdle]
    /\ coupon = [r \in SendReqs |-> CouponIdle]

InitPool == SendAtRest /\ PoolAtRest /\ GenAtRest /\ PrepAtRest /\ UiAtRest

NextPool ==
    \/ \E r \in PoolReqs : initializePage_call(r)
    \/ \E r \in PoolReqs : cleanupStaleBrowserInstance_closed(r)
    \/ \E r \in PoolReqs : getBrowserInstance_check(r)
    \/ \E r \in PoolReqs : getBrowserInstance_launched(r)
    \/ \E r \in PoolReqs : initializePage_newPage(r)
    \/ \E r \in PoolReqs : page_close(r)
    \/ tick

SpecPool == InitPool /\ [][NextPool]_vars

\* ------------------------------------------------------ generation flows
\* generatePreviews, generateBasicPDF and generatePremiumPDF are straight
\* sequences of awaited collaborator calls without try / catch / finally.
\* Each is written as the list of its awaited steps; a call stands at one
\* step (idx), a step that resolves moves it to the next, a step that
\* rejects ends the call with that error.  "render" is the markup phase
\* (handlebarsStylesPartial, preparePdfData, compileTemplate); the page
\* steps act on the page initializePage returned.
RenderError     == "RenderError"
StoreError      == "StoreError"
ProcessorError  == "ProcessorError"
PageStepError   == "PageStepError"
TimeoutError    == "TimeoutError"

\* Steps that act on an open page and change nothing else.
PageOps == {"setContent", "screenshot", "emulateMediaType", "addStyleTag", "pdf"}

\* Faulty variant of PreviewSteps: the preview persists a pattern record.
PreviewSteps_Persisting ==
    <<"render", "createPattern", "initializePage", "setContent", "screenshot",
      "setContent", "screenshot", "pageClose">>

\* generatePreviews: markup, one page without template, takePdfScreenshot
\* (setContent + screenshot) for the basic and for the premium preview on
\* that page, page.close().
PreviewSteps ==
    <<"render", "initializePage", "setContent", "screenshot",
      "setContent", "screenshot", "pageClose">>

\* Faulty variant of BasicSteps: the email is sent before the file is stored.
BasicSteps_MailFirst ==
    <<"render", "createPattern", "initializePage", "setContent",
      "emulateMediaType", "pdf", "pageClose", "sendFreePattern", "createFile">>

\* generateBasicPDF: markup, createPattern, initializePage(basicTemplate)
\* (its setContent runs inside initializePage), emulateMediaType, page.pdf,
\* page.close, createFile, sendFreePattern.
BasicSteps ==
    <<"render", "createPattern", "initializePage", "setContent",
      "emulateMediaType", "pdf", "pageClose", "createFile", "sendFreePattern">>

\* Faulty variant of PremiumSteps: a payment intent is created in both
\* branches.
PremiumSteps_AlwaysIntent(couponSupplied) ==
    (IF couponSupplied
     THEN <<"getCouponOrPromoCode", "checkCouponOrCode", "createPaymentIntent">>
     ELSE <<"createPaymentIntent">>)
    \o <<"render", "createPattern", "initializePage", "setContent",
         "emulateMediaType", "addStyleTag", "pdf", "pageClose", "createFile">>

\* Faulty variant of PremiumSteps: the pattern record is stored before the
\* authorization step.
PremiumSteps_PersistFirst(couponSupplied) ==
    <<"render", "createPattern">>
    \o (IF couponSupplied
        THEN <<"getCouponOrPromoCode", "checkCouponOrCode">>
        ELSE <<"createPaymentIntent">>)
    \o <<"initializePage", "setContent", "emulateMediaType", "addStyleTag", "pdf",
         "pageClose", "createFile">>

\* generatePremiumPDF: with paymentPayload.coupon the code is fetched and
\* checked, otherwise a payment intent is created; then markup,
\* createPattern, initializePage(premiumTemplate), emulateMediaType,
\* addStyleTag, page.pdf, page.close, createFile.
PremiumSteps(couponSupplied) ==
    (IF couponSupplied
     THEN <<"getCouponOrPromoCode", "checkCouponOrCode">>
     ELSE <<"createPaymentIntent">>)
    \o <<"render", "createPattern", "initializePage", "setContent",
         "emulateMediaType", "addStyleTag", "pdf", "pageClose", "createFile">>

\* The awaited steps of a call.
Steps(q) ==
    CASE q.kind = "previews" -> PreviewSteps
      [] q.kind = "basic"    -> BasicSteps
      [] q.kind = "premium"  -> PremiumSteps(q.coupon)
      [] OTHER               -> <<>>

\* The step a running call is awaiting.
CurOp(q) == IF q.status = "running" THEN Steps(q)[q.idx] ELSE "none"

\* The value a call returns: both previews; or fileId and patternId, with
\* paymentId and clientSecret exactly when paymentData is set.
Result(q) ==
    [fileId         |-> q.kind \in {"basic", "premium"},
     patternId      |-> q.kind \in {"basic", "premium"},
     paymentId      |-> q.kind = "premium" /\ q.paymentData,
     clientSecret   |-> q.kind = "premium" /\ q.paymentData,
     basicPreview   |-> q.kind = "previews",
     premiumPreview |-> q.kind = "previews"]

\* The awaited step resolves: the call goes on to its next step, or returns
\* its result after the last one.
OkStep(q) ==
    LET logged == [q EXCEPT !.log = Append(@, [op |-> CurOp(q), ok |-> TRUE])]
    IN  IF q.idx = Len(Steps(q))
        THEN [logged EXCEPT !.status = "done", !.result = Result(q)]
        ELSE [logged EXCEPT !.idx = @ + 1]

\* Faulty variant of FailStep: the rejected step is attempted again.
FailStep_Retry(q, err) ==
    [q EXCEPT !.log = Append(@, [op |-> CurOp(q), ok |-> FALSE]), !.error = err]

\* The awaited step rejects: nothing catches, the call ends with the error.
FailStep(q, err) ==
    [q EXCEPT !.log = Append(@, [op |-> CurOp(q), ok |-> FALSE]),
              !.status = "failed", !.error = err]

\* Faulty variant of AfterCheck: the outcome of the check is ignored.
AfterCheck_Proceeds(q, err) == OkStep(q)

\* generatePremiumPDF's  await this.checkCouponOrCode(couponOrCode):  a
\* failed check throws out of the method, before any markup is built.
AfterCheck(q, err) == IF err = NoError THEN OkStep(q) ELSE FailStep(q, err)

generatePreviews_call(r) ==
    /\ gen[r].status = "idle"
    /\ gen' = [gen EXCEPT ![r] =
                  [GenIdle EXCEPT !.kind = "previews", !.status = "running", !.idx = 1]]
    /\ UNCHANGED <<patternsStored, filesStored, intentsCreated, sendVars, poolVars, prepVars,
                   uiVars>>

generateBasicPDF_call(r) ==
    /\ gen[r].status = "idle"
    /\ gen' = [gen EXCEPT ![r] =
                  [GenIdle EXCEPT !.kind = "basic", !.status = "running", !.idx = 1]]
    /\ UNCHANGED <<patternsStored, filesStored, intentsCreated, sendVars, poolVars, prepVars,
                   uiVars>>

\* generatePremiumPDF is called with or without paymentPayload.coupon.
generatePremiumPDF_call(r) ==
    /\ gen[r].status = "idle"
    /\ \E c \in BOOLEAN :
          gen' = [gen EXCEPT ![r] =
                     [GenIdle EXCEPT !.kind = "premium", !.coupon = c,
                                     !.status = "running", !.idx = 1]]
    /\ UNCHANGED <<patternsStored, filesStored, intentsCreated, sendVars, poolVars, prepVars,
                   uiVars>>

\* paymentService.createPaymentIntent(PAYMENT_AMOUNT, paymentPayload).
createPaymentIntent(r) ==
    /\ CurOp(gen[r]) = "createPaymentIntent"
    /\ \/ /\ gen' = [gen EXCEPT ![r] = OkStep([gen[r] EXCEPT !.paymentData = TRUE])]
          /\ intentsCreated' = intentsCreated + 1
       \/ /\ gen' = [gen EXCEPT ![r] = FailStep(gen[r], ProcessorError)]
          /\ UNCHANGED intentsCreated
    /\ UNCHANGED <<patternsStored, filesStored, sendVars, poolVars, prepVars, uiVars>>

\* paymentService.getCouponOrPromoCode(paymentPayload.coupon).
getCouponOrPromoCode(r) ==
    /\ CurOp(gen[r]) = "getCouponOrPromoCode"
    /\ \/ gen' = [gen EXCEPT ![r] = OkStep([gen[r] EXCEPT !.code = couponOrPromo])]
       \/ gen' = [gen EXCEPT ![r] = FailStep(gen[r], ProcessorError)]
    /\ UNCHANGED <<patternsStored, filesStored, intentsCreated, sendVars, poolVars, prepVars,
                   uiVars>>

\* await this.checkCouponOrCode(couponOrCode) in generatePremiumPDF.
generatePremiumPDF_check(r) ==
    /\ CurOp(gen[r]) = "checkCouponOrCode"
    /\ gen' = [gen EXCEPT ![r] = AfterCheck(gen[r], checkCouponOrCode(gen[r].code))]
    /\ UNCHANGED <<patternsStored, filesStored, intentsCreated, sendVars, poolVars, prepVars,
                   uiVars>>

\* handlebarsStylesPartial, preparePdfData and compileTemplate: the markup
\* is built, or reading a partial, a template or an image fails.
preparePdfData(r) ==
    /\ CurOp(gen[r]) = "render"
    /\ \/ gen' = [gen EXCEPT ![r] = OkStep(gen[r])]
       \/ gen' = [gen EXCEPT ![r] = FailStep(gen[r], RenderError)]
    /\ UNCHANGED <<patternsStored, filesStored, intentsCreated, sendVars, poolVars, prepVars,
                   uiVars>>

\* patternsService.createPattern: the record is stored, or the store fails.
createPattern(r) ==
    /\ CurOp(gen[r]) = "createPattern"
    /\ \/ /\ gen' = [gen EXCEPT ![r] = OkStep(gen[r])]
          /\ patternsStored' = patternsStored + 1
          /\ patternExists' = TRUE
       \/ /\ gen' = [gen EXCEPT ![r] = FailStep(gen[r], StoreError)]
          /\ UNCHANGED <<patternsStored, patternExists>>
    /\ UNCHANGED <<filesStored, intentsCreated, fileExists, paymentIntent, couponOrPromo,
                   pendingInactive, premium, coupon, poolVars, prepVars, uiVars>>

\* The call reaches  await this.initializePage(...).
generate_initializePage(r) ==
    /\ CurOp(gen[r]) = "initializePage"
    /\ acq[r].pc = "idle"
    /\ initializePage_call(r)

\* browser.newPage() resolved or the acquisition failed.
generate_pageAcquired(r) ==
    /\ CurOp(gen[r]) = "initializePage"
    /\ \/ /\ acq[r].pc = "hasPage"
          /\ gen' = [gen EXCEPT ![r] = OkStep(gen[r])]
       \/ /\ acq[r].pc = "failed"
          /\ gen' = [gen EXCEPT ![r] = FailStep(gen[r], acq[r].error)]
    /\ UNCHANGED <<patternsStored, filesStored, intentsCreated, sendVars, poolVars, prepVars,
                   uiVars>>

\* page.setContent (which may time out), page.screenshot,
\* page.emulateMediaType, page.addStyleTag, page.pdf.  A rejection leaves
\* the page as it is: no handler closes it.
page_step(r) ==
    /\ CurOp(gen[r]) \in PageOps
    /\ \/ gen' = [gen EXCEPT ![r] = OkStep(gen[r])]
       \/ gen' = [gen EXCEPT ![r] =
                     FailStep(gen[r], IF CurOp(gen[r]) = "setContent"
                                      THEN TimeoutError ELSE PageStepError)]
    /\ UNCHANGED <<patternsStored, filesStored, intentsCreated, sendVars, poolVars, prepVars,
                   uiVars>>

\* await page.close().
generate_pageClose(r) ==
    /\ CurOp(gen[r]) = "pageClose"
    /\ \/ /\ gen' = [gen EXCEPT ![r] = OkStep(gen[r])]
          /\ acq' = [acq EXCEPT ![r] = AcqIdle]
       \/ /\ gen' = [gen EXCEPT ![r] = FailStep(gen[r], PageStepError)]
          /\ UNCHANGED acq
    /\ UNCHANGED <<patternsStored, filesStored, intentsCreated, sendVars,
                   browserInstance, browserInstanceInitializedAt, now, engines, launched,
                   launchCalls, launchFailures, acquisitions, overlap, prepVars, uiVars>>

\* filesService.createFile: the PDF is stored, or the store fails.
createFile(r) ==
    /\ CurOp(gen[r]) = "createFile"
    /\ \/ /\ gen' = [gen EXCEPT ![r] = OkStep(gen[r])]
          /\ filesStored' = filesStored + 1
          /\ fileExists' = TRUE
       \/ /\ gen' = [gen EXCEPT ![r] = FailStep(gen[r], StoreError)]
          /\ UNCHANGED <<filesStored, fileExists>>
    /\ UNCHANGED <<patternsStored, intentsCreated, patternExists, paymentIntent,
                   couponOrPromo, pendingInactive, premium, coupon, poolVars, prepVars,
                   uiVars>>

\* await this.mailService.sendFreePattern(...).
sendFreePattern(r) ==
    /\ CurOp(gen[r]) = "sendFreePattern"
    /\ \/ gen' = [gen EXCEPT ![r] = OkStep(gen[r])]
       \/ gen' = [gen EXCEPT ![r] = FailStep(gen[r], MailError)]
    /\ UNCHANGED <<patternsStored, filesStored, intentsCreated, sendVars, poolVars, prepVars,
                   uiVars>>

\* handleCouponContactFormSubmit: after generatePremiumPdf with the coupon
\* has returned, sendCouponPdf is called with the returned ids.
handleCouponContactFormSubmit_send(r) ==
    /\ gen[r].status = "done"
    /\ gen[r].kind = "premium"
    /\ gen[r].coupon
    /\ sendCouponPDF_call(r)

\* The stores are empty, the processor holds any record of the code; all
\* calls fall inside one staleness window of the engine pool.
InitGen ==
    /\ fileExists = FALSE
    /\ patternExists = FALSE
    /\ paymentIntent = [status |-> "requires_payment_method", payment_method |-> FALSE]
    /\ couponOrPromo \in CouponOrCodes
    /\ pendingInactive = 0
    /\ premium = [r \in SendReqs |-> PremiumIdle]
    /\ coupon = [r \in SendReqs |-> CouponIdle]
    /\ PoolAtRest
    /\ GenAtRest
    /\ PrepAtRest
    /\ UiAtRest

NextGen ==
    \/ \E r \in GenReqs : generatePreviews_call(r)
    \/ \E r \in GenReqs : generateBasicPDF_call(r)
    \/ \E r \in GenReqs : generatePremiumPDF_call(r)
    \/ \E r \in GenReqs : createPaymentIntent(r)
    \/ \E r \in GenReqs : getCouponOrPromoCode(r)
    \/ \E r \in GenReqs : generatePremiumPDF_check(r)
    \/ \E r \in GenReqs : preparePdfData(r)
    \/ \E r \in GenReqs : createPattern(r)
    \/ \E r \in GenReqs : generate_initializePage(r)
    \/ \E r \in GenReqs : getBrowserInstance_check(r)
    \/ \E r \in GenReqs : getBrowserInstance_launched(r)
    \/ \E r \in GenReqs : initializePage_newPage(r)
    \/ \E r \in GenReqs : generate_pageAcquired(r)
    \/ \E r \in GenReqs : page_step(r)
    \/ \E r \in GenReqs : generate_pageClose(r)
    \/ \E r \in GenReqs : createFile(r)
    \/ \E r \in GenReqs : sendFreePattern(r)
    \/ \E r \in GenReqs : handleCouponContactFormSubmit_send(r)
    \/ \E r \in GenReqs : sendCouponPDF_getFile(r)
    \/ \E r \in GenReqs : sendCouponPDF_getPattern(r)
    \/ \E r \in GenReqs : sendCouponPDF_getCode(r)
    \/ \E r \in GenReqs : sendCouponPDF_mail(r)
    \/ \E r \in GenReqs : setPromotionCodeInactive(r)

SpecGen == InitGen /\ [][NextGen]_vars

\* -------------------------------------------------- pattern-data helpers
\* Coordinates a piece position can take, in multiples of 1 / Resolution.
Coords == -MaxCoord..MaxCoord

\* Creation times of instructions; equal times occur.
CreatedAts == {1, 2}

AssetIds == 1..MaxAssets

\* The id of the i-th instruction of the a-th asset; its image, when it
\* has one, is the file of the same number.
InstructionId(a, i) == 10 * a + i

\* What getFile(fileId) resolves to: the file, of which the url is used.
Url(fileId) == <<"url", fileId>>

\* All sequences over S of length at most n.
SeqsUpTo(S, n) == UNION {[1..k -> S] : k \in 0..n}

RECURSIVE SumTo(_, _)
SumTo(f, k) == IF k = 0 THEN 0 ELSE f[k] + SumTo(f, k - 1)

RECURSIVE MinOf(_)
MinOf(S) ==
    LET x == CHOOSE y \in S : TRUE
    IN  IF S = {x} THEN x
        ELSE LET m == MinOf(S \ {x}) IN IF x < m THEN x ELSE m

\* Math.round on a value given in multiples of 1 / Resolution: the nearest
\* integer, halves going up.
MathRound(h) == (2 * h + Resolution) \div (2 * Resolution)

\* calculatePatternSize: the minimum corner of the bounding box across all
\* piece positions.
calculatePatternSize(pieces) ==
    [minPosX |-> MinOf({pieces[i].positionX : i \in 1..Len(pieces)}),
     minPosY |-> MinOf({pieces[i].positionY : i \in 1..Len(pieces)})]

\* Faulty variant of NormalizedPosition: the minimum is not subtracted.
NormalizedPosition_Unshifted(pos, minPos) == MathRound(pos)

\* preparePatternPieces:  Math.round(preparedPiece.positionX - minPosX)
NormalizedPosition(pos, minPos) == MathRound(pos - minPos)

\* Faulty variant of orderBy: the input order is kept.
orderBy_Unsorted(instructions) == instructions

\* lodash orderBy(instructions, 'createdAt', ['asc']): a stable sort.
RECURSIVE orderBy(_)
orderBy(instructions) ==
    IF instructions = <<>> THEN <<>>
    ELSE LET x    == instructions[Len(instructions)]
             rest == orderBy(SubSeq(instructions, 1, Len(instructions) - 1))
         IN  SelectSeq(rest, LAMBDA y : y.createdAt <= x.createdAt)
             \o <<x>>
             \o SelectSeq(rest, LAMBDA y : y.createdAt > x.createdAt)

\* find(pdfData.patternPieces, ({ piece }) => piece.assetId === asset.id)
\* finds a piece.
HasPiece(data, asset) ==
    \E i \in 1..Len(data.patternPieces) : data.patternPieces[i].assetId = asset.id

\* The assets whose instruction callbacks read a colour name of a piece
\* that was not found.
Unmatched(data) ==
    {a \in 1..Len(data.patternAssets) :
        /\ Len(data.patternAssets[a].instructions) > 0
        /\ ~HasPiece(data, data.patternAssets[a])}

\* reduce(patternPieces, ...): the pieces of an asset, in input order.
PiecesOf(data, asset) ==
    SelectSeq(data.patternPieces, LAMBDA p : p.assetId = asset.id)

\* The instruction callbacks up to their first await: an instruction with
\* an instructionImageId has issued getFile, one without is resolved.
IssuedLookups(data) ==
    [a \in 1..Len(data.patternAssets) |->
        [i \in 1..Len(data.patternAssets[a].instructions) |->
            IF data.patternAssets[a].instructions[i].instructionImageId # Null
            THEN [state |-> "pending", image |-> Null]
            ELSE [state |-> "resolved", image |-> Null]]]

Pending(results) ==
    {<<a, i>> \in (DOMAIN results) \X (1..MaxInstructions) :
        i \in DOMAIN results[a] /\ results[a][i].state = "pending"}

\* Faulty variant of Resolved: instructionImage is one variable shared by
\* all callbacks, so a resolving lookup overwrites the images already set.
Resolved_Shared(results, a, i, url) ==
    [b \in DOMAIN results |->
        [j \in DOMAIN results[b] |->
            IF (b = a /\ j = i)
               \/ (results[b][j].state = "resolved" /\ results[b][j].image # Null)
            THEN [state |-> "resolved", image |-> url]
            ELSE results[b][j]]]

\* An instruction's getFile resolves: its callback returns the instruction
\* with instructionImage?.url; Promise.all keeps the value at the position
\* of its instruction.
Resolved(results, a, i, url) ==
    [results EXCEPT ![a][i] = [state |-> "resolved", image |-> url]]

\* The value preparePdfData returns once every callback has returned: each
\* asset with its instructions ordered by createdAt and its pieces.
Output(data, results) ==
    [patternAssets |->
        [a \in 1..Len(data.patternAssets) |->
            [id |-> data.patternAssets[a].id,
             instructions |->
                orderBy([i \in 1..Len(data.patternAssets[a].instructions) |->
                    [id |-> data.patternAssets[a].instructions[i].id,
                     createdAt |-> data.patternAssets[a].instructions[i].createdAt,
                     instructionImageId |->
                        data.patternAssets[a].instructions[i].instructionImageId,
                     instructionImage |-> results[a][i].image]]),
             pieces |-> PiecesOf(data, data.patternAssets[a])]],
     patternPieces |-> data.patternPieces]

\* Promise.all settles: with every lookup resolved the call returns.
Settle(p) ==
    IF Pending(p.results) = {}
    THEN [p EXCEPT !.pc = "done", !.output = Output(pdfData, p.results)]
    ELSE [p EXCEPT !.pc = "lookups"]

\* preparePdfData is called: every instruction callback runs to its first
\* await.  A callback of an asset without matching piece throws on
\* patternPiece.primaryColorName and the call rejects.
preparePdfData_call ==
    /\ prep.pc = "idle"
    /\ IF Unmatched(pdfData) # {}
       THEN prep' = [prep EXCEPT !.pc = "failed", !.error = TypeError]
       ELSE prep' = Settle([prep EXCEPT !.results = IssuedLookups(pdfData)])
    /\ UNCHANGED <<pdfData, client, sendVars, poolVars, genVars, uiVars>>

\* filesService.getFile of instruction i of asset a resolves.
getFile_resolved(a, i) ==
    /\ prep.pc = "lookups"
    /\ <<a, i>> \in Pending(prep.results)
    /\ LET fileId == Val(pdfData.patternAssets[a].instructions[i].instructionImageId)
           early  == \E q \in Pending(prep.results) :
                        q[1] < a \/ (q[1] = a /\ q[2] < i)
       IN  prep' = Settle([prep EXCEPT
                      !.results = Resolved(@, a, i, Url(fileId)),
                      !.outOfOrder = @ \/ early])
    /\ UNCHANGED <<pdfData, client, sendVars, poolVars, genVars, uiVars>>

\* filesService.getFile of instruction i of asset a rejects: Promise.all
\* rejects and the call fails.
getFile_rejected(a, i) ==
    /\ prep.pc = "lookups"
    /\ <<a, i>> \in Pending(prep.results)
    /\ prep' = [prep EXCEPT !.pc = "failed", !.error = StoreError]
    /\ UNCHANGED <<pdfData, client, sendVars, poolVars, genVars, uiVars>>

\* The client's preparePatternPieces: every position relative to the
\* minimum corner, rounded.
preparePatternPieces ==
    /\ client.pieces = Null
    /\ client' = [client EXCEPT !.pieces =
          Some([i \in 1..Len(pdfData.patternPieces) |->
              LET size == calculatePatternSize(pdfData.patternPieces)
              IN  [assetId   |-> pdfData.patternPieces[i].assetId,
                   positionX |-> NormalizedPosition(
                                    pdfData.patternPieces[i].positionX, size.minPosX),
                   positionY |-> NormalizedPosition(
                                    pdfData.patternPieces[i].positionY, size.minPosY)]])]
    /\ UNCHANGED <<pdfData, prep, sendVars, poolVars, genVars, uiVars>>

\* The client's preparePatternAssets(patternPieces).
preparePatternAssets ==
    /\ client.assets = Null
    /\ client' = [client EXCEPT !.assets =
          Some([a \in 1..Len(pdfData.patternAssets) |->
              [id |-> pdfData.patternAssets[a].id,
               instructions |-> orderBy(pdfData.patternAssets[a].instructions),
               pieces |-> PiecesOf(pdfData, pdfData.patternAssets[a])]])]
    /\ UNCHANGED <<pdfData, prep, sendVars, poolVars, genVars, uiVars>>

\* Any pieces at any positions, no assets.
InitPieces ==
    /\ \E ps \in SeqsUpTo(Coords \X Coords, MaxPieces) :
          pdfData = [patternPieces |->
                        [i \in 1..Len(ps) |->
                            [assetId |-> 1, positionX |-> ps[i][1],
                             positionY |-> ps[i][2]]],
                     patternAssets |-> <<>>]
    /\ prep = PrepIdle
    /\ client = ClientIdle
    /\ SendAtRest /\ PoolAtRest /\ GenAtRest /\ UiAtRest

NextPieces == preparePatternPieces

SpecPieces == InitPieces /\ [][NextPieces]_vars

\* Any assets with any instructions (with or without image, in any order
\* of creation), any assignment of pieces to asset ids.
InitPrepare ==
    /\ \E n \in 0..MaxAssets :
       \E counts \in [1..n -> 0..MaxInstructions] :
          /\ SumTo(counts, n) <= MaxInstructions
          /\ \E c \in [1..SumTo(counts, n) -> CreatedAts \X BOOLEAN] :
             \E owners \in SeqsUpTo(AssetIds, MaxPieces) :
                pdfData =
                   [patternPieces |->
                       [i \in 1..Len(owners) |->
                           [assetId |-> owners[i], positionX |-> 0, positionY |-> 0]],
                    patternAssets |->
                       [a \in 1..n |->
                           [id |-> a,
                            instructions |->
                               [i \in 1..counts[a] |->
                                   LET k == c[SumTo(counts, a - 1) + i]
                                   IN  [id |-> InstructionId(a, i),
                                        createdAt |-> k[1],
                                        instructionImageId |->
                                           IF k[2] THEN Some(InstructionId(a, i))
                                           ELSE Null]]]]]
    /\ prep = PrepIdle
    /\ client = ClientIdle
    /\ SendAtRest /\ PoolAtRest /\ GenAtRest /\ UiAtRest

NextPrepare ==
    \/ preparePdfData_call
    \/ \E a \in AssetIds, i \in 1..MaxInstructions : getFile_resolved(a, i)
    \/ \E a \in AssetIds, i \in 1..MaxInstructions : getFile_rejected(a, i)
    \/ preparePatternAssets

SpecPrepare == InitPrepare /\ [][NextPrepare]_vars

\* ------------------------------------------------ download-modal handlers
\* useDownloadModal (src/unnamed/part_001).  modalParams is the state of
\* DownloadModalContext; setModalParams updates the fields it is given.  The
\* API calls pdfApi.getCoupon / generatePremiumPdf / sendCouponPdf resolve or
\* reject; an invocation of a handler is cut at each awaited call.

\* handleCouponFormSubmit up to `await pdfApi.getCoupon(coupon)`: returns at
\* once without a coupon or while modalParams.isLoading; otherwise sets
\* isLoading.
handleCouponFormSubmit_call ==
    /\ couponForm.pc # "getCoupon"
    /\ couponForm.tries < MaxCouponTries
    /\ ~modalParams.isLoading
    /\ modalParams' = [modalParams EXCEPT !.isLoading = TRUE]
    /\ couponForm' = [pc |-> "getCoupon", tries |-> couponForm.tries + 1]
    /\ UNCHANGED <<submit, libVars, sendVars, poolVars, genVars, prepVars>>

\* handleCouponFormSubmit after getCoupon: on success couponState carries
\* couponId and error false; on failure couponState is {discount: 0,
\* error: true} with no couponId.  Either way isLoading becomes false.
handleCouponFormSubmit_getCoupon ==
    /\ couponForm.pc = "getCoupon"
    /\ \E ok \in BOOLEAN :
          modalParams' = [isLoading |-> FALSE, couponId |-> ok, error |-> ~ok]
    /\ couponForm' = [couponForm EXCEPT !.pc = "done"]
    /\ UNCHANGED <<submit, libVars, sendVars, poolVars, genVars, prepVars>>

\* The statements after the if/else of handleCouponContactFormSubmit:
\* openCheckEmailModal, purchaseEvent('coupon'), sibPremiumPatternEvent,
\* cancelModal.
Confirmed(s) ==
    [s EXCEPT !.checkEmailModals = @ + 1, !.purchaseEvents = @ + 1, !.cancelModals = @ + 1]

\* The catch block of handleCouponContactFormSubmit: openErrorModal.
Caught(s) == [s EXCEPT !.errorModals = @ + 1]

\* handleCouponContactFormSubmit up to its first await.  With a couponId in
\* the modal state it sets isLoading and calls generatePremiumPdf.  Without
\* one it runs to its end without yielding: the else branch opens the error
\* modal, the statements after the if/else follow, finally clears isLoading.
handleCouponContactFormSubmit_call(h) ==
    /\ submit[h].pc = "idle"
    /\ IF modalParams.couponId
       THEN /\ modalParams' = [modalParams EXCEPT !.isLoading = TRUE]
            /\ submit' = [submit EXCEPT ![h] =
                    [@ EXCEPT !.pc = "generatePremiumPdf", !.couponId = TRUE,
                              !.generateCalls = @ + 1]]
       ELSE /\ modalParams' = [modalParams EXCEPT !.isLoading = FALSE]
            /\ submit' = [submit EXCEPT ![h] =
                    [Confirmed(Caught(@)) EXCEPT !.pc = "finished"]]
    /\ UNCHANGED <<couponForm, libVars, sendVars, poolVars, genVars, prepVars>>

\* handleCouponContactFormSubmit after `await pdfApi.generatePremiumPdf`:
\* on success it calls sendCouponPdf; on failure catch and finally run.
handleCouponContactFormSubmit_generatePremiumPdf(h) ==
    /\ submit[h].pc = "generatePremiumPdf"
    /\ \E ok \in BOOLEAN :
          IF ok
          THEN /\ submit' = [submit EXCEPT ![h] =
                      [@ EXCEPT !.pc = "sendCouponPdf", !.generated = TRUE,
                                !.sendCalls = @ + 1]]
               /\ UNCHANGED modalParams
          ELSE /\ submit' = [submit EXCEPT ![h] = [Caught(@) EXCEPT !.pc = "finished"]]
               /\ modalParams' = [modalParams EXCEPT !.isLoading = FALSE]
    /\ UNCHANGED <<couponForm, libVars, sendVars, poolVars, genVars, prepVars>>

\* handleCouponContactFormSubmit after `await pdfApi.sendCouponPdf`: on
\* success the statements after the if/else run; on failure catch runs.
\* finally clears isLoading.
handleCouponContactFormSubmit_sendCouponPdf(h) ==
    /\ submit[h].pc = "sendCouponPdf"
    /\ \E ok \in BOOLEAN :
          submit' = [submit EXCEPT ![h] =
              IF ok THEN [Confirmed(@) EXCEPT !.pc = "finished", !.sent = TRUE]
                    ELSE [Caught(@) EXCEPT !.pc = "finished"]]
    /\ modalParams' = [modalParams EXCEPT !.isLoading = FALSE]
    /\ UNCHANGED <<couponForm, libVars, sendVars, poolVars, genVars, prepVars>>

InitHandler ==
    /\ SendAtRest /\ PoolAtRest /\ GenAtRest /\ PrepAtRest /\ UiAtRest

NextHandler ==
    \/ handleCouponFormSubmit_call
    \/ handleCouponFormSubmit_getCoupon
    \/ \E h \in Submits : handleCouponContactFormSubmit_call(h)
    \/ \E h \in Submits : handleCouponContactFormSubmit_generatePremiumPdf(h)
    \/ \E h \in Submits : handleCouponContactFormSubmit_sendCouponPdf(h)

SpecHandler == InitHandler /\ [][NextHandler]_vars

\* ---------------------------------------------------- asset library store
\* AssetsLibraryStore (src/unnamed/part_000).  assets[id] is "absent" when
\* the store holds no asset with that id, "unset" when the asset has no
\* pieces field, "empty" when its pieces list is empty and "loaded" when it
\* is non-empty.  assetsVersion counts the replacements of this.assets: an
\* asset object found before a replacement is no longer in the store after
\* it.  Load operations take the slots of `loads` in order.

\* The next free slot is o.
NextLoad(o) ==
    /\ loads[o].pc = "idle"
    /\ \A q \in LoadOps : q < o => loads[q].pc # "idle"

\* A call that has returned and has no fetch outstanding keeps none of its
\* locals.
Retired(l) ==
    IF l.pc = "finished" /\ \A k \in DOMAIN l.fetches : l.fetches[k] # "pending"
    THEN [LoadIdle EXCEPT !.pc = "finished"]
    ELSE l

\* The argument lists of loadPiecesForAssets.
IdLists == SeqsUpTo(LibAssetIds, MaxIds)

\* loadPiecesForAsset up to its await, for the asset as found in the store:
\* it returns at once when the asset is unknown or has a non-empty pieces
\* list, and calls getAssetPieces otherwise.
Fetches(found) == found \in {"unset", "empty"}

\* The fetch of each position of ids, as decided by loadPiecesForAsset.
FetchesOf(ids) ==
    [k \in 1..Len(ids) |-> IF Fetches(assets[ids[k]]) THEN "pending" ELSE "skipped"]

\* getAssetPieces calls per id after loadPiecesForAsset ran for each of ids.
CalledFor(ids) ==
    [id \in LibAssetIds |->
        fetchCalls[id]
          + Cardinality({k \in 1..Len(ids) : ids[k] = id /\ FetchesOf(ids)[k] = "pending"})]

\* getAssetsList up to `await this.assetsApi.getAssets(...)`.
getAssetsList_call(o) ==
    /\ NextLoad(o)
    /\ isLoading' = TRUE
    /\ isSvgLoading' = TRUE
    /\ loads' = [loads EXCEPT ![o] =
            [kind |-> "getAssetsList", pc |-> "awaiting", ids |-> <<>>,
             fetches |-> <<>>, version |-> assetsVersion]]
    /\ UNCHANGED <<assets, assetsVersion, fetchCalls, modalVars,
                   sendVars, poolVars, genVars, prepVars>>

\* getAssetsList after getAssets settled: on success this.assets is
\* replaced by the listed assets, which carry no pieces; on failure the
\* error is logged.  finally clears both flags.
getAssetsList_settled(o) ==
    /\ loads[o].kind = "getAssetsList" /\ loads[o].pc = "awaiting"
    /\ \/ /\ \E data \in [LibAssetIds -> {"absent", "unset"}] : assets' = data
          /\ assetsVersion' = assetsVersion + 1
       \/ UNCHANGED <<assets, assetsVersion>>
    /\ isLoading' = FALSE
    /\ isSvgLoading' = FALSE
    /\ loads' = [loads EXCEPT ![o] = Retired([@ EXCEPT !.pc = "finished"])]
    /\ UNCHANGED <<fetchCalls, modalVars, sendVars, poolVars, genVars, prepVars>>

\* loadPiecesForAssets(ids) up to `await Promise.all(...)`: setLoading(true),
\* then loadPiecesForAsset runs for every id up to its own await.
loadPiecesForAssets_call(o) ==
    /\ NextLoad(o)
    /\ \E ids \in IdLists :
          /\ loads' = [loads EXCEPT ![o] =
                  [kind |-> "loadPiecesForAssets", pc |-> "awaiting", ids |-> ids,
                   fetches |-> FetchesOf(ids), version |-> assetsVersion]]
          /\ fetchCalls' = CalledFor(ids)
    /\ isLoading' = TRUE
    /\ UNCHANGED <<isSvgLoading, assets, assetsVersion, modalVars,
                   sendVars, poolVars, genVars, prepVars>>

\* loadPiecesForAsset(id) called on its own, up to its await.
loadPiecesForAsset_call(o) ==
    /\ NextLoad(o)
    /\ \E id \in LibAssetIds :
          /\ loads' = [loads EXCEPT ![o] = Retired(
                  [kind |-> "loadPiecesForAsset",
                   pc |-> IF Fetches(assets[id]) THEN "awaiting" ELSE "finished",
                   ids |-> <<id>>, fetches |-> FetchesOf(<<id>>),
                   version |-> assetsVersion])]
          /\ fetchCalls' = CalledFor(<<id>>)
    /\ UNCHANGED <<isLoading, isSvgLoading, assets, assetsVersion, modalVars,
                   sendVars, poolVars, genVars, prepVars>>

\* setAssetPieces(asset, pieces) for the asset object found when the fetch
\* was issued: the store sees the pieces only if that object is still in
\* this.assets.
setAssetPieces(found, id, pieces) ==
    IF found = assetsVersion THEN [assets EXCEPT ![id] = pieces] ELSE assets

\* loadPiecesForAsset after getAssetPieces resolved: the pieces, an empty
\* or a non-empty list, are set on the asset.
getAssetPieces_resolved(o, k) ==
    /\ k \in DOMAIN loads[o].fetches
    /\ loads[o].fetches[k] = "pending"
    /\ \E pieces \in {"empty", "loaded"} :
          assets' = setAssetPieces(loads[o].version, loads[o].ids[k], pieces)
    /\ loads' = [loads EXCEPT ![o] = Retired(
            [@ EXCEPT !.fetches[k] = "resolved",
                      !.pc = IF @ = "awaiting" /\ loads[o].kind = "loadPiecesForAsset"
                             THEN "finished" ELSE @])]
    /\ UNCHANGED <<isLoading, isSvgLoading, assetsVersion, fetchCalls, modalVars,
                   sendVars, poolVars, genVars, prepVars>>

\* loadPiecesForAsset after getAssetPieces rejected: nothing is set.
getAssetPieces_rejected(o, k) ==
    /\ k \in DOMAIN loads[o].fetches
    /\ loads[o].fetches[k] = "pending"
    /\ loads' = [loads EXCEPT ![o] = Retired(
            [@ EXCEPT !.fetches[k] = "rejected",
                      !.pc = IF @ = "awaiting" /\ loads[o].kind = "loadPiecesForAsset"
                             THEN "finished" ELSE @])]
    /\ UNCHANGED <<isLoading, isSvgLoading, assets, assetsVersion, fetchCalls, modalVars,
                   sendVars, poolVars, genVars, prepVars>>

\* Promise.all over the loadPiecesForAsset promises has settled: every one
\* fulfilled, or one rejected (the others may still be pending).
AllSettled(l) ==
    \/ \A k \in DOMAIN l.fetches : l.fetches[k] \in {"skipped", "resolved"}
    \/ \E k \in DOMAIN l.fetches : l.fetches[k] = "rejected"

\* loadPiecesForAssets after `await Promise.all(...)`: catch logs a
\* rejection, finally runs setLoading(false).
loadPiecesForAssets_settled(o) ==
    /\ loads[o].kind = "loadPiecesForAssets" /\ loads[o].pc = "awaiting"
    /\ AllSettled(loads[o])
    /\ isLoading' = FALSE
    /\ loads' = [loads EXCEPT ![o] = Retired([@ EXCEPT !.pc = "finished"])]
    /\ UNCHANGED <<isSvgLoading, assets, assetsVersion, fetchCalls, modalVars,
                   sendVars, poolVars, genVars, prepVars>>

InitLibrary ==
    /\ SendAtRest /\ PoolAtRest /\ GenAtRest /\ PrepAtRest /\ UiAtRest

NextLibrary ==
    \/ \E o \in LoadOps : getAssetsList_call(o)
    \/ \E o \in LoadOps : getAssetsList_settled(o)
    \/ \E o \in LoadOps : loadPiecesForAssets_call(o)
    \/ \E o \in LoadOps : loadPiecesForAsset_call(o)
    \/ \E o \in LoadOps, k \in 1..MaxIds : getAssetPieces_resolved(o, k)
    \/ \E o \in LoadOps, k \in 1..MaxIds : getAssetPieces_rejected(o, k)
    \/ \E o \in LoadOps : loadPiecesForAssets_settled(o)

SpecLibrary == InitLibrary /\ [][NextLibrary]_vars

\* -------------------------------------------------- sendCouponPDF claims
\* Calls whose coupon email was sent successfully.
CouponSenders == {r \in SendReqs : coupon[r].sent}

\* C3: setPromotionCodeInactive is invoked exactly once by a sendCouponPDF
\* call whose coupon email was sent with a code of type 'promocode', and not
\* at all by a call that failed validation, lacked the file or pattern, whose
\* sendCouponPattern failed, or whose code is of type 'coupon'.
C3_DeactivateOncePerPromocodeSend ==
    \A r \in SendReqs :
        LET q == coupon[r] IN
        /\ q.inactiveCalls =
              IF q.sent /\ q.code.type = "promocode" THEN 1 ELSE 0
        /\ q.pc = "failed" => (~q.sent /\ q.inactiveCalls = 0)

\* C3 witness: one call sent a promocode's email and deactivated it, another
\* call's sendCouponPattern failed and deactivated nothing.
C3_Witness ==
    \E r, s \in SendReqs :
        /\ coupon[r].pc = "done" /\ coupon[r].code.type = "promocode"
        /\ coupon[r].inactiveCalls = 1
        /\ coupon[s].pc = "failed" /\ coupon[s].error = MailError
        /\ coupon[s].inactiveCalls = 0

\* C4: a promocode is single-use: over any interleaving of sendCouponPDF
\* calls naming the same promocode, at most one call sends a coupon email.
C4_PromocodeSingleUse ==
    couponOrPromo.type = "promocode" => Cardinality(CouponSenders) <= 1

\* The calls that have run checkCouponOrCode.
CouponChecked == {r \in SendReqs : coupon[r].check # "pending"}

CodeAuthorizes(c) ==
    \/ c.type = "coupon" /\ c.present /\ c.valid
    \/ c.type = "promocode" /\ c.present /\ c.active

\* C5: checkCouponOrCode succeeds iff (type 'coupon' and value.valid) or
\* (type 'promocode' and value.active); on every other input it fails with a
\* client error (BadRequestException).
C5_CheckSucceedsIffAuthorized ==
    \A r \in CouponChecked :
        LET q == coupon[r] IN
        /\ q.check = NoError <=> CodeAuthorizes(q.code)
        /\ ~CodeAuthorizes(q.code) => q.check \in BadRequestException

\* C6: one failure message per cause: an invalid coupon yields the coupon
\* message, an inactive promocode the promotion-code message, and the absence
\* of both a coupon value and a promocode value, whatever the type tag, the
\* generic 'No such coupon or promotion code.' client error.
C6_OneMessagePerCause ==
    \A r \in CouponChecked :
        LET q == coupon[r]
            c == coupon[r].code
        IN  /\ (c.type = "coupon" /\ c.present /\ ~c.valid) => q.check = CouponMsg
            /\ (c.type = "promocode" /\ c.present /\ ~c.active) => q.check = PromoMsg
            /\ (~c.present \/ c.type = "none") => q.check = NoSuchCodeMsg

\* ----------------------------------------------------------- pool claims
\* The engine an acquisition was handed.
Handed(r) == Val(acq[r].browser)

\* The acquisitions that have returned an engine to initializePage.
Returned == {r \in PoolReqs : acq[r].pc \in {"returned", "hasPage"}}

\* C7: acquisitions issued one after another within the staleness window of
\* the first engine launch exactly one engine and all get that instance: one
\* launch call succeeded, the engine stays pooled and open, and an acquisition
\* that found an instance pooled launches nothing.
C7_LaunchOnceAndReuse ==
    (~overlap /\ launched >= 1 /\ now - engines[1].createdAt < StaleAfter)
    => /\ launched = 1
       /\ launchCalls - launchFailures = 1
       /\ browserInstance = Some(1)
       /\ engines[1].state = "open"
       /\ engines[1].closeCalls = 0
       /\ \A r \in Returned : acq[r].browser = Some(1)
       /\ \A r \in PoolReqs :
             (acq[r].pc \in InFlight \cup {"hasPage"} /\ acq[r].pooledAtCall # Null)
                => acq[r].launches = 0

\* C7 witness: a third acquisition in a row reuses the engine launched by the
\* first, within the window.
C7_Witness ==
    /\ ~overlap
    /\ acquisitions = 3
    /\ launched = 1
    /\ now - engines[1].createdAt < StaleAfter
    /\ \E r \in PoolReqs :
          /\ acq[r].pc = "hasPage"
          /\ acq[r].pooledAtCall = Some(1)
          /\ acq[r].browser = Some(1)
          /\ acq[r].launches = 0

C9_ReturnedEngineNotStale ==
    \A r \in PoolReqs :
        acq[r].pc = "returned" => now - engines[Handed(r)].createdAt <= StaleAfter

\* C9 witness: one acquisition is handed a pooled engine one tick short of
\* the threshold, another has closed a stale engine and been handed a new one.
C9_Witness ==
    /\ \E r \in PoolReqs :
          /\ acq[r].pc = "returned"
          /\ acq[r].browser = acq[r].pooledAtCall
          /\ now - engines[Handed(r)].createdAt = StaleAfter - 1
    /\ \E e \in EngineIds : engines[e].state = "closed"

\* C10: no caller holds an open page on, requests a page from, or is handed
\* an engine that a staleness cleanup is closing or has closed.
C10_NeverUsedWhileClosing ==
    \A r \in PoolReqs :
        /\ acq[r].pc = "returned" => engines[Handed(r)].state = "open"
        /\ acq[r].pc = "hasPage" => engines[Val(acq[r].page)].state = "open"

\* C11: the lazy-launch path has no mutual exclusion: every launch that
\* resolves is stored over whatever is pooled, so the pooled instance is
\* always the engine launched last, and concurrent first requests can leave
\* two launched engines of which only the last-stored one is pooled.
C11_LastLaunchedIsPooled ==
    /\ browserInstance # Null => Val(browserInstance) = launched
    /\ \A r \in PoolReqs : acq[r].pc = "launching" => acq[r].launches = 1

\* C11 witness: two requests called while the pool was empty, both launched:
\* two engine processes are open, none was closed, the second one is pooled.
C11_Witness ==
    /\ launched = 2
    /\ launchCalls = 2
    /\ engines[1].state = "open" /\ engines[1].closeCalls = 0
    /\ engines[2].state = "open"
    /\ browserInstance = Some(2)
    /\ \E r, s \in PoolReqs :
          /\ r # s
          /\ acq[r].pc = "returned" /\ acq[r].pooledAtCall = Null /\ Handed(r) = 1
          /\ acq[s].pc = "returned" /\ acq[s].pooledAtCall = Null /\ Handed(s) = 2

\* ------------------------------------------------ generation flow claims
\* The steps a call has awaited so far, in order.
Ops(q) == [i \in 1..Len(q.log) |-> q.log[i].op]

\* How often a call invoked a step, and how often the step resolved.
Calls(q, op) == Cardinality({i \in 1..Len(q.log) : q.log[i].op = op})
OkCount(q, op) == Cardinality({i \in 1..Len(q.log) : q.log[i].op = op /\ q.log[i].ok})

Ended(q) == q.status \in {"done", "failed"}

\* C12: each fulfillment request closes every page it opened, on success
\* and on failure (setContent timeout, failed screenshot, emulateMediaType,
\* addStyleTag or page.pdf included).
C12_EveryPageClosed ==
    \A r \in GenReqs : Ended(gen[r]) => acq[r].pc # "hasPage"

\* C13: a successful generateBasicPDF has performed, in this order and
\* exactly once each, createPattern, the page acquisition and PDF
\* conversion, createFile and sendFreePattern, and returns fileId and
\* patternId; the flow never calls the payment processor.
C13_BasicFlowOrder ==
    \A r \in GenReqs :
        gen[r].kind = "basic" =>
            /\ \A i \in 1..Len(gen[r].log) :
                  gen[r].log[i].op \notin
                      {"createPaymentIntent", "getCouponOrPromoCode", "checkCouponOrCode"}
            /\ gen[r].status = "done" =>
                  /\ Ops(gen[r]) =
                        <<"render", "createPattern", "initializePage", "setContent",
                          "emulateMediaType", "pdf", "pageClose", "createFile",
                          "sendFreePattern">>
                  /\ \A i \in 1..Len(gen[r].log) : gen[r].log[i].ok
                  /\ gen[r].result.fileId /\ gen[r].result.patternId
                  /\ ~gen[r].result.paymentId /\ ~gen[r].result.clientSecret

\* C13 witness: a generateBasicPDF call has returned.
C13_Witness ==
    \E r \in GenReqs :
        /\ gen[r].kind = "basic" /\ gen[r].status = "done"
        /\ patternsStored >= 1 /\ filesStored >= 1

\* C14: no compensation.  A rejected step is the last thing its call does
\* (no later step, no retry), and every pattern record and file stored
\* before the failure stays in its store.
C14_NoCompensation ==
    /\ \A r \in GenReqs :
          /\ \A i \in 1..Len(gen[r].log) :
                ~gen[r].log[i].ok => i = Len(gen[r].log) /\ gen[r].status = "failed"
          /\ gen[r].status = "failed" =>
                /\ Len(gen[r].log) = gen[r].idx
                /\ Ops(gen[r]) = SubSeq(Steps(gen[r]), 1, gen[r].idx)
                /\ ~gen[r].log[gen[r].idx].ok
    /\ patternsStored = Cardinality({r \in GenReqs : OkCount(gen[r], "createPattern") = 1})
    /\ filesStored = Cardinality({r \in GenReqs : OkCount(gen[r], "createFile") = 1})

\* C14 witness: generateBasicPDF failed at sendFreePattern; the pattern
\* record and the file it stored are still there.
C14_Witness ==
    \E r \in GenReqs :
        /\ gen[r].kind = "basic" /\ gen[r].status = "failed"
        /\ gen[r].error = MailError
        /\ patternsStored = 1 /\ filesStored = 1

\* C15: no collaborator failure is swallowed: when a call made by an
\* operation fails (setPromotionCodeInactive included), the operation fails.
C15_NoSwallowedFailure ==
    \A r \in SendReqs :
        (coupon[r].error = MailError \/ coupon[r].inactive = "rejected")
            => coupon[r].pc = "failed"

\* C16: generatePremiumPDF creates a payment intent iff no coupon was
\* supplied (exactly one without, none with); its result carries paymentId
\* and clientSecret iff an intent was created, and always fileId and
\* patternId.
C16_IntentIffNoCoupon ==
    /\ \A r \in GenReqs :
          gen[r].kind = "premium" =>
              /\ gen[r].coupon => Calls(gen[r], "createPaymentIntent") = 0
              /\ (~gen[r].coupon /\ Len(gen[r].log) >= 1) =>
                    Calls(gen[r], "createPaymentIntent") = 1
              /\ gen[r].status = "done" =>
                    /\ OkCount(gen[r], "createPaymentIntent") = 1 <=> ~gen[r].coupon
                    /\ gen[r].result.paymentId
                          <=> OkCount(gen[r], "createPaymentIntent") = 1
                    /\ gen[r].result.clientSecret
                          <=> OkCount(gen[r], "createPaymentIntent") = 1
                    /\ gen[r].result.fileId /\ gen[r].result.patternId
    /\ intentsCreated =
          Cardinality({r \in GenReqs : OkCount(gen[r], "createPaymentIntent") = 1})

\* C16 witness: a generatePremiumPDF call without coupon has returned with
\* the ids of its payment intent.
C16_Witness ==
    \E r \in GenReqs :
        /\ gen[r].kind = "premium" /\ ~gen[r].coupon /\ gen[r].status = "done"
        /\ gen[r].result.paymentId /\ gen[r].result.clientSecret
        /\ intentsCreated = 1

\* The generatePremiumPDF calls whose coupon code was checked and rejected.
RejectedAtCheck ==
    {r \in GenReqs : /\ gen[r].kind = "premium" /\ gen[r].coupon
                     /\ Calls(gen[r], "checkCouponOrCode") = 1
                     /\ ~CodeAuthorizes(gen[r].code)}

PromoScenarioDone ==
    {r \in GenReqs : /\ gen[r].kind = "premium" /\ gen[r].coupon
                     /\ gen[r].status = "done"
                     /\ gen[r].code.type = "promocode"
                     /\ coupon[r].pc = "done"}

\* C19: the completed coupon scenario with a valid, active promocode has
\* created no payment intent, exactly one pattern record and one file, sent
\* exactly one coupon email and invoked exactly one deactivation.
C19_CouponScenarioCounts ==
    \A r \in PromoScenarioDone :
        /\ Calls(gen[r], "createPaymentIntent") = 0
        /\ ~gen[r].result.paymentId
        /\ Calls(gen[r], "createPattern") = 1 /\ OkCount(gen[r], "createPattern") = 1
        /\ Calls(gen[r], "createFile") = 1 /\ OkCount(gen[r], "createFile") = 1
        /\ coupon[r].mails = 1 /\ coupon[r].sent
        /\ coupon[r].inactiveCalls = 1
        /\ coupon[r].inactive \in {"pending", "applied", "rejected"}

\* C19 witness: the scenario completed and the deactivation reached the
\* processor.
C19_Witness ==
    \E r \in PromoScenarioDone :
        /\ coupon[r].inactive = "applied"
        /\ ~couponOrPromo.active
        /\ patternsStored = 1 /\ filesStored = 1 /\ intentsCreated = 0

\* C20: generatePreviews never calls createPattern, createFile, the payment
\* processor or the mailer, whether it succeeds or fails; a successful call
\* has rasterized both previews on one page and returns both images.
C20_PreviewsPersistNothing ==
    /\ \A r \in GenReqs :
          gen[r].kind = "previews" =>
              /\ \A i \in 1..Len(gen[r].log) :
                    gen[r].log[i].op \in
                        {"render", "initializePage", "setContent", "screenshot",
                         "pageClose"}
              /\ Calls(gen[r], "initializePage") <= 1
              /\ gen[r].status = "done" =>
                    /\ OkCount(gen[r], "screenshot") = 2
                    /\ Calls(gen[r], "initializePage") = 1
                    /\ gen[r].result.basicPreview /\ gen[r].result.premiumPreview
                    /\ ~gen[r].result.fileId /\ ~gen[r].result.patternId
    /\ (\A r \in GenReqs : gen[r].kind \in {"none", "previews"}) =>
          /\ patternsStored = 0 /\ filesStored = 0 /\ intentsCreated = 0
          /\ ~fileExists /\ ~patternExists /\ pendingInactive = 0
          /\ \A s \in SendReqs : coupon[s].pc = "idle" /\ premium[s].pc = "idle"

\* C20 witness: a generatePreviews call has returned after two screenshots
\* on its one page.
C20_Witness ==
    \E r \in GenReqs :
        /\ gen[r].kind = "previews"
        /\ gen[r].status = "done"
        /\ OkCount(gen[r], "screenshot") = 2

\* ---------------------------------------------- pattern-data helper claims
\* C21: for every non-empty set of pieces, after the bounding-box
\* normalization the smallest positionX and the smallest positionY are
\* exactly 0 and no coordinate is negative.
C21_NormalizedMinimumIsZero ==
    (client.pieces # Null /\ Len(pdfData.patternPieces) > 0) =>
        LET out == Val(client.pieces)
        IN  /\ Len(out) = Len(pdfData.patternPieces)
            /\ \A i \in 1..Len(out) : out[i].positionX >= 0 /\ out[i].positionY >= 0
            /\ \E i \in 1..Len(out) : out[i].positionX = 0
            /\ \E i \in 1..Len(out) : out[i].positionY = 0

\* C21 witness: two pieces were normalized whose bounding box starts below
\* zero and whose distance is not a whole unit, so the shift and the
\* rounding both act.
C21_Witness ==
    /\ client.pieces # Null
    /\ Len(pdfData.patternPieces) = 2
    /\ calculatePatternSize(pdfData.patternPieces).minPosX < 0
    /\ (pdfData.patternPieces[1].positionX - pdfData.patternPieces[2].positionX)
          % Resolution # 0
    /\ Val(client.pieces)[1].positionX # Val(client.pieces)[2].positionX

\* Instructions in non-decreasing order of createdAt.
Ordered(instructions) ==
    \A i, j \in 1..Len(instructions) :
        i < j => instructions[i].createdAt <= instructions[j].createdAt

\* The same instructions (by id, ids being unique) as the input's.
SameInstructions(out, in) ==
    /\ Len(out) = Len(in)
    /\ {out[i].id : i \in 1..Len(out)} = {in[i].id : i \in 1..Len(in)}
    /\ \A i \in 1..Len(out) : \E j \in 1..Len(in) :
          /\ out[i].id = in[j].id
          /\ out[i].createdAt = in[j].createdAt
          /\ out[i].instructionImageId = in[j].instructionImageId

\* C22: every asset in the output of preparePdfData and of the client's
\* preparePatternAssets carries exactly its input instructions, ordered
\* non-decreasingly by createdAt.
C22_InstructionsOrdered ==
    /\ prep.pc = "done" =>
          \A a \in 1..Len(pdfData.patternAssets) :
              /\ Ordered(prep.output.patternAssets[a].instructions)
              /\ SameInstructions(prep.output.patternAssets[a].instructions,
                                  pdfData.patternAssets[a].instructions)
    /\ client.assets # Null =>
          \A a \in 1..Len(pdfData.patternAssets) :
              /\ Ordered(Val(client.assets)[a].instructions)
              /\ SameInstructions(Val(client.assets)[a].instructions,
                                  pdfData.patternAssets[a].instructions)

\* C22 witness: both helpers returned for an asset whose instructions
\* arrived out of order.
C22_Witness ==
    /\ prep.pc = "done"
    /\ client.assets # Null
    /\ \E a \in 1..Len(pdfData.patternAssets) :
          ~Ordered(pdfData.patternAssets[a].instructions)

\* C23: the image lookups of preparePdfData complete in any order and the
\* result is the same: the assets in input order, each with its
\* instructions in createdAt order (equal times in input order) and every
\* instruction with the image of its own instructionImageId.
C23_LookupOrderIrrelevant ==
    prep.pc = "done" =>
        /\ Len(prep.output.patternAssets) = Len(pdfData.patternAssets)
        /\ \A a \in 1..Len(pdfData.patternAssets) :
              LET out == prep.output.patternAssets[a].instructions
              IN  /\ prep.output.patternAssets[a].id = pdfData.patternAssets[a].id
                  /\ SameInstructions(out, pdfData.patternAssets[a].instructions)
                  /\ Ordered(out)
                  /\ \A i, j \in 1..Len(out) :
                        (i < j /\ out[i].createdAt = out[j].createdAt)
                            => out[i].id < out[j].id
                  /\ \A i \in 1..Len(out) :
                        out[i].instructionImage =
                            IF out[i].instructionImageId = Null THEN Null
                            ELSE Url(Val(out[i].instructionImageId))

\* C23 witness: the call returned after a lookup had resolved while the
\* lookup of an earlier instruction was still pending.
C23_Witness ==
    /\ prep.pc = "done"
    /\ prep.outOfOrder

\* C24: an asset with instructions and no piece of its id is not fatal:
\* the substitution is skipped and preparePdfData still returns.
C24_UnmatchedAssetNotFatal ==
    (prep.pc # "idle" /\ Unmatched(pdfData) # {}) => prep.error # TypeError

\* ------------------------------------------------ further behaviour claims
\* C25: the staleness cleanup closes the pooled engine iff it was created
\* more than one hour before the acquisition; at an age of exactly one hour
\* or less the engine is kept.
C25_ClosesIffOlderThanHour ==
    \A r \in PoolReqs :
        acq[r].pc \in InFlight \cup {"hasPage"} =>
            (acq[r].closes > 0 <=> acq[r].lateAtCall)

\* C26: sendPremiumPDF evaluates no check before file, pattern and payment
\* intent are fetched, and reports one error by precedence: payment method
\* missing, then status not succeeded, then file missing, then pattern
\* missing.
C26_PremiumErrorPrecedence ==
    \A r \in SendReqs :
        /\ premium[r].pc \in {"getFile", "getPattern", "retrieve"} =>
              premium[r].error = NoError /\ premium[r].mails = 0
        /\ premium[r].pc \in {"mail", "done", "failed"} =>
              /\ ~premium[r].intent.payment_method =>
                    premium[r].error = PaymentMissingMsg
              /\ premium[r].error = NotPaidMsg <=>
                    /\ premium[r].intent.payment_method
                    /\ premium[r].intent.status # "succeeded"
              /\ premium[r].error = FileMissingMsg <=>
                    /\ premium[r].intent.payment_method
                    /\ premium[r].intent.status = "succeeded"
                    /\ ~premium[r].file
              /\ premium[r].error = PatternMissingMsg <=>
                    /\ premium[r].intent.payment_method
                    /\ premium[r].intent.status = "succeeded"
                    /\ premium[r].file
                    /\ ~premium[r].pattern

\* C26 witness: all four checks fail at once and the call reports the
\* missing payment method.
C26_Witness ==
    \E r \in SendReqs :
        /\ premium[r].pc = "failed"
        /\ ~premium[r].intent.payment_method
        /\ premium[r].intent.status # "succeeded"
        /\ ~premium[r].file /\ ~premium[r].pattern
        /\ premium[r].error = PaymentMissingMsg

\* C27: sendCouponPDF sends the coupon email only if the code passes the
\* check and file and pattern exist; the code is checked first: a rejected
\* code yields the error of the check even when the file is missing, an
\* accepted code with a missing file or pattern yields that error, with no
\* email and no deactivation.
C27_CouponCheckPrecedence ==
    \A r \in SendReqs :
        /\ coupon[r].pc \in {"getFile", "getPattern", "getCode"} =>
              coupon[r].error = NoError /\ coupon[r].mails = 0
        /\ coupon[r].mails > 0 =>
              CodeAuthorizes(coupon[r].code) /\ coupon[r].file /\ coupon[r].pattern
        /\ coupon[r].check # "pending" =>
              /\ ~CodeAuthorizes(coupon[r].code) =>
                    /\ coupon[r].error = checkCouponOrCode(coupon[r].code)
                    /\ coupon[r].error \notin {FileMissingMsg, PatternMissingMsg, NoError}
              /\ (CodeAuthorizes(coupon[r].code) /\ ~coupon[r].file) =>
                    /\ coupon[r].error = FileMissingMsg
                    /\ coupon[r].mails = 0 /\ coupon[r].inactiveCalls = 0
              /\ (CodeAuthorizes(coupon[r].code) /\ coupon[r].file /\ ~coupon[r].pattern) =>
                    /\ coupon[r].error = PatternMissingMsg
                    /\ coupon[r].mails = 0 /\ coupon[r].inactiveCalls = 0

\* C27 witness: an inactive promocode and a missing file: the call reports
\* the promotion code error.
C27_Witness ==
    \E r \in SendReqs :
        /\ coupon[r].pc = "failed"
        /\ coupon[r].code.type = "promocode" /\ coupon[r].code.present
        /\ ~coupon[r].file
        /\ coupon[r].error = PromoMsg

\* A step op at position i of a call's log has a resolved step among
\* `before` ahead of it.
Preceded(q, i, before) ==
    \E j \in 1..(i - 1) : q.log[j].ok /\ q.log[j].op \in before

\* C28: in generatePremiumPDF the authorization step completes before
\* createPattern, createPattern before the PDF conversion, the conversion
\* before createFile; the method sends no email; when a render or persist
\* step fails in a call without coupon, its payment intent already exists.
C28_PremiumFlowOrder ==
    \A r \in GenReqs :
        gen[r].kind = "premium" =>
            /\ \A i \in 1..Len(gen[r].log) :
                  /\ gen[r].log[i].op = "createPattern" =>
                        Preceded(gen[r], i, {"checkCouponOrCode", "createPaymentIntent"})
                  /\ gen[r].log[i].op = "pdf" => Preceded(gen[r], i, {"createPattern"})
                  /\ gen[r].log[i].op = "createFile" => Preceded(gen[r], i, {"pdf"})
                  /\ gen[r].log[i].op # "sendFreePattern"
            /\ (gen[r].status = "failed" /\ ~gen[r].coupon /\ Len(gen[r].log) >= 2) =>
                  /\ OkCount(gen[r], "createPaymentIntent") = 1
                  /\ intentsCreated >= 1

\* C28 witness: a call without coupon failed at createFile: its payment
\* intent and its pattern record exist, no file does.
C28_Witness ==
    \E r \in GenReqs :
        /\ gen[r].kind = "premium" /\ ~gen[r].coupon
        /\ gen[r].status = "failed"
        /\ Calls(gen[r], "createFile") = 1
        /\ intentsCreated = 1 /\ patternsStored = 1 /\ filesStored = 0

\* C29: browserInstance is null iff browserInstanceInitializedAt is null,
\* wherever control can pass from one request to another.
C29_PooledFieldsTogether ==
    (browserInstance = Null) <=> (browserInstanceInitializedAt = Null)

\* C29 witness: after a failed launch, overlapping acquisitions and a stale
\* cleanup, an engine is pooled again.
C29_Witness ==
    /\ launchFailures >= 1
    /\ overlap
    /\ \E e \in EngineIds : engines[e].state = "closed"
    /\ browserInstance # Null
    /\ browserInstanceInitializedAt # Null

\* C30: every launched engine is the pooled instance or has been closed,
\* and close is called at most once on an engine.
C30_NoOrphanNoDoubleClose ==
    \A e \in 1..launched :
        /\ browserInstance = Some(e) \/ engines[e].state = "closed"
        /\ engines[e].closeCalls <= 1

\* C31: a failed launch leaves the pool as it was, empty when no other
\* acquisition overlapped: the error reaches the caller, who gets neither
\* browser nor page, both pooled fields keep their value, and an
\* acquisition that finds the pool empty (the next one included) attempts a
\* launch of its own.
C31_FailedLaunchLeavesPoolEmpty ==
    [][/\ launchFailures' > launchFailures =>
            /\ browserInstance' = browserInstance
            /\ browserInstanceInitializedAt' = browserInstanceInitializedAt
            /\ ~overlap => browserInstance' = Null /\ browserInstanceInitializedAt' = Null
            /\ \E r \in PoolReqs :
                  /\ acq[r].pc = "launching"
                  /\ acq'[r].pc = "failed" /\ acq'[r].error = "LaunchError"
                  /\ acq'[r].browser = Null /\ acq'[r].page = Null
       /\ \A r \in PoolReqs :
            (acq[r].pc = "afterCleanup" /\ browserInstance = Null /\ acq'[r] # acq[r]) =>
                /\ acq'[r].pc = "launching"
                /\ launchCalls' = launchCalls + 1
      ]_vars

\* C31 witness: after a failed launch a later acquisition, not overlapping
\* any other, launched an engine of its own and got its page.
C31_Witness ==
    /\ launchFailures = 1
    /\ launchCalls = 2
    /\ ~overlap
    /\ browserInstance = Some(1)
    /\ \E r \in PoolReqs : acq[r].pc = "hasPage" /\ acq[r].launches = 1

\* Invocations of handleCouponContactFormSubmit that have run to their end.
Finished == {h \in Submits : submit[h].pc = "finished"}

\* C32: an invocation of handleCouponContactFormSubmit shows the "Your
\* premium PDF was sent" confirmation (openCheckEmailModal, purchaseEvent,
\* cancelModal) only if it called generatePremiumPdf and sendCouponPdf and
\* both succeeded; an invocation that found no couponId or had a call fail
\* shows the error modal and nothing else; and isLoading is false in the
\* state in which an invocation finishes.
C32_ConfirmationOnlyAfterBothSucceeded ==
    \A h \in Submits :
        LET s == submit[h]
            confirmations == s.checkEmailModals + s.purchaseEvents + s.cancelModals
        IN  /\ confirmations > 0 =>
                /\ s.generateCalls = 1 /\ s.generated
                /\ s.sendCalls = 1 /\ s.sent
            /\ (h \in Finished /\ ~(s.generated /\ s.sent)) =>
                /\ s.errorModals = 1
                /\ confirmations = 0

\* C32, loading flag: a step in which an invocation finishes leaves
\* modalParams.isLoading false.
C32_LoadingClearedAtFinish ==
    [][\A h \in Submits :
          (submit[h].pc # "finished" /\ submit'[h].pc = "finished") =>
              ~modalParams'.isLoading]_vars

\* An invocation without a couponId has finished with the error modal and
\* the confirmation both shown and no API call made.
C32_ConfirmedWithoutCoupon ==
    \E h \in Finished :
        /\ ~submit[h].couponId /\ submit[h].generateCalls = 0
        /\ submit[h].errorModals = 1 /\ submit[h].checkEmailModals = 1

\* ------------------------------------------------- asset library claims
\* The getAssetsList and loadPiecesForAssets operations in flight.
LoadsInFlight ==
    {o \in LoadOps : /\ loads[o].kind \in {"getAssetsList", "loadPiecesForAssets"}
                      /\ loads[o].pc = "awaiting"}

\* C33: isLoading is true whenever a getAssetsList or loadPiecesForAssets
\* operation is in flight, under any interleaving of overlapping calls, and
\* false once all of them have completed.
C33_LoadingWhileInFlight ==
    isLoading <=> LoadsInFlight # {}

\* C33, the second half: once every load has completed isLoading is false.
C33_LoadingFalseWhenNoneInFlight ==
    LoadsInFlight = {} => ~isLoading

\* C34: getAssetPieces is called at most once for an asset id, over any
\* sequence or interleaving of loadPiecesForAsset / loadPiecesForAssets
\* calls.
C34_FetchedAtMostOnce ==
    \A id \in LibAssetIds : fetchCalls[id] <= 1

\* C34, the guard: a step calls getAssetPieces for an id only if the store
\* holds an asset with that id whose pieces list is missing or empty.
C34_NoFetchForUnknownOrLoaded ==
    [][\A id \in LibAssetIds :
          fetchCalls'[id] > fetchCalls[id] => assets[id] \in {"unset", "empty"}]_vars
====
